---- MODULE Spec2Model ----
(***************************************************************************)
(* Model of mandelox: the Split/Join engine (src/src/threads.rs), the      *)
(* escape states and solvers (src/src/solver/*.rs, src/src/state/mod.rs)   *)
(* and the persistent WorkerPool built on mpsc channels.                   *)
(*                                                                         *)
(* Complex numbers are pairs <<re, im>> of integers: a Viewbox of scale 1  *)
(* maps pixel (x, y) to the complex number x + y i exactly, so the         *)
(* recurrence z <- z*z + c stays in the Gaussian integers.                 *)
(***************************************************************************)
EXTENDS Integers, Sequences, FiniteSets, TLC

\* ---------------------------------------------------------------- bounds
MaxWidth == 2
MaxHeight == 4
MaxParts == 4
MaxWorkers == 3
MaxCalls == 2
\* iteration budget of a solver (MbVecSolver::default uses 100)
Iterations == 2
\* f64 magnitudes beyond Cap are held at +-Cap (stands for overflow to +-inf)
Cap == 1000

\* ------------------------------------------------------- program constants
Treshold == 2
UNSET == -1
INF == 1000000
LANES == 4

\* pixel centres of the windows the model draws its inputs from
Centers == {<<0, 0>>, <<2, 1>>}

\* ------------------------------------------------------------- results
\* A Rust call either returns a value or panics (assert!, unwrap, division by 0).
Ok(v) == [ok |-> TRUE, val |-> v, err |-> ""]
Panic(msg) == [ok |-> FALSE, val |-> <<>>, err |-> msg]

\* ------------------------------------------------------- threads.rs: RangeSplitter
\* Iterator::next for RangeSplitter, unrolled: the ranges still to be produced.
\* An empty tuple inside the result marks the failed bounds assertion.
RECURSIVE RangeSplitterNext(_, _, _, _, _, _)
RangeSplitterNext(i, n, offset, length, size, plus_ones) ==
    IF i >= n THEN <<>>
    ELSE LET sz == IF plus_ones > 0 THEN size + 1 ELSE size
             po == IF plus_ones > 0 THEN plus_ones - 1 ELSE plus_ones
         IN IF sz > length
            THEN << <<>> >>
            ELSE << <<offset, offset + sz>> >>
                 \o RangeSplitterNext(i + 1, n, offset + sz, length - sz, size, po)

\* a plausible slip: the remainder rows are dropped instead of distributed
RangeSplitterSplitNoRemainder(start, end, n) ==
    IF n = 0 THEN Panic("attempt to divide by zero")
    ELSE Ok(RangeSplitterNext(0, n, start, end - start, (end - start) \div n, 0))

\* a plausible slip: the whole remainder goes to the last part
RangeSplitterSplitRemainderLast(start, end, n) ==
    IF n = 0 THEN Panic("attempt to divide by zero")
    ELSE LET sz == (end - start) \div n
         IN Ok([k \in 1..n |->
                  <<start + (k - 1) * sz, IF k = n THEN end ELSE start + k * sz>>])

\* RangeSplitter::split(start, end, n) collected: (end - start) / n panics for n = 0.
RangeSplitterSplit(start, end, n) ==
    IF n = 0 THEN Panic("attempt to divide by zero")
    ELSE LET rs == RangeSplitterNext(0, n, start, end - start,
                                     (end - start) \div n, (end - start) % n)
         IN IF \E k \in 1..Len(rs) : rs[k] = <<>>
            THEN Panic("RangeSplitter bounds error")
            ELSE Ok(rs)

\* impl Split for Vec<T>: split_to_vec
VecSplitToVec(v, n) ==
    LET rs == RangeSplitterSplit(0, Len(v), n)
    IN IF ~rs.ok THEN rs
       ELSE Ok([k \in 1..Len(rs.val) |-> SubSeq(v, rs.val[k][1] + 1, rs.val[k][2])])

\* impl Join for Vec<T>: join_vec
RECURSIVE VecJoinVec(_)
VecJoinVec(parts) ==
    IF parts = <<>> THEN <<>> ELSE Head(parts) \o VecJoinVec(Tail(parts))

\* SplitPart::new
SplitPartNew(part, n) == [n |-> n, part |-> part]

\* the Err(JoinError) of SplitPart::join (a value, turned into a panic by unwrap)
JoinError == [ok |-> FALSE, val |-> <<>>, err |-> "JoinError"]

\* ------------------------------------------------------- complex.rs / coord.rs
Clamp(v) == IF v > Cap THEN Cap ELSE IF v < -Cap THEN -Cap ELSE v

\* (z * z) + c
CSqAdd(z, c) ==
    <<Clamp(z[1] * z[1] - z[2] * z[2] + c[1]), Clamp(2 * z[1] * z[2] + c[2])>>

\* z.norm() > treshold, compared on the squares
NormGt(z, t) == z[1] * z[1] + z[2] * z[2] > t * t

\* Viewbox::new(x, y, w, h, 1.0)
Viewbox(x, y, w, h) == [center |-> <<x, y>>, width |-> w, height |-> h]

\* impl IntoIterator for Viewbox
ViewboxIntoIter(v) ==
    LET from_x == v.center[1] - (v.width \div 2)
        from_y == v.center[2] - (v.height \div 2)
    IN [x |-> from_x, from_x |-> from_x, to_x |-> from_x + v.width - 1,
        y |-> from_y, to_y |-> from_y + v.height - 1]

\* a plausible slip: x runs up to to_x inclusive before the row changes
ViewboxIterIncrPastRowEnd(it) ==
    IF it.y <= it.to_y
    THEN IF it.x <= it.to_x
         THEN [it EXCEPT !.x = it.x + 1]
         ELSE [it EXCEPT !.y = it.y + 1, !.x = it.from_x]
    ELSE it

\* ViewboxIter::incr: the iterator after the call (the call returns (it.x, it.y))
ViewboxIterIncr(it) ==
    IF it.y <= it.to_y
    THEN IF it.x < it.to_x
         THEN [it EXCEPT !.x = it.x + 1]
         ELSE [it EXCEPT !.y = it.y + 1, !.x = it.from_x]
    ELSE it

\* Iterator::next for ViewboxIter, collected until it returns None
RECURSIVE ViewboxIterCollect(_)
ViewboxIterCollect(it) ==
    IF it.y <= it.to_y
    THEN << <<it.x, it.y>> >> \o ViewboxIterCollect(ViewboxIterIncr(it))
    ELSE <<>>

\* Viewbox::generate_complex_coordinates with scale 1: unscaled(x, y) = x + y i
GenerateComplexCoordinates(v) ==
    [width |-> v.width, height |-> v.height,
     values |-> ViewboxIterCollect(ViewboxIntoIter(v))]

\* ------------------------------------------------------- solver/vec.rs (scalar)
\* impl From<Viewbox> for MbVecState
MbVecStateFrom(v) ==
    LET cs == GenerateComplexCoordinates(v).values
    IN [width |-> v.width, height |-> v.height, iteration |-> 0,
        state |-> [k \in 1..Len(cs) |-> [c |-> cs[k], z |-> cs[k], i |-> UNSET]]]

\* one cell through the loop body of MbVecSolver::solve for iterations from..iters-1
RECURSIVE MbVecCellSolve(_, _, _)
MbVecCellSolve(cell, from, iters) ==
    IF from >= iters THEN cell
    ELSE IF cell.i = UNSET
         THEN LET z == CSqAdd(cell.z, cell.c)
              IN MbVecCellSolve([cell EXCEPT !.z = z,
                                             !.i = IF NormGt(z, Treshold) THEN from ELSE UNSET],
                                from + 1, iters)
         ELSE MbVecCellSolve(cell, from + 1, iters)

\* impl Solver<MbVecState> for MbVecSolver: solve
MbVecSolverSolve(s) ==
    [s EXCEPT !.state = [k \in 1..Len(s.state) |-> MbVecCellSolve(s.state[k], 0, Iterations)],
              !.iteration = Iterations]

RECURSIVE SumHeights(_)
SumHeights(parts) ==
    IF parts = <<>> THEN 0 ELSE Head(parts).height + SumHeights(Tail(parts))

\* impl Split for MbVecState: split_to_vec
MbVecStateSplitToVec(s, n) ==
    LET rows == VecSplitToVec(s.state, s.height)
    IN IF ~rows.ok THEN rows
       ELSE LET row_groups == VecSplitToVec(rows.val, n)
            IN IF ~row_groups.ok THEN row_groups
               ELSE Ok([k \in 1..Len(row_groups.val) |->
                          [width |-> s.width,
                           height |-> Len(row_groups.val[k]),
                           state |-> VecJoinVec(row_groups.val[k]),
                           iteration |-> s.iteration]])

\* a plausible slip: the joined height is the first part's, not the sum
MbVecStateJoinVecFirstHeight(parts) ==
    IF parts = <<>> THEN Panic("index out of bounds")
    ELSE Ok([width |-> parts[1].width,
             height |-> parts[1].height,
             iteration |-> parts[1].iteration,
             state |-> VecJoinVec([k \in 1..Len(parts) |-> parts[k].state])])

\* impl Join for MbVecState: join_vec
MbVecStateJoinVec(parts) ==
    IF parts = <<>> THEN Panic("index out of bounds")
    ELSE IF \E k \in 1..Len(parts) : parts[k].width # parts[1].width
         THEN Panic("assertion failed: part.width == width")
         ELSE IF \E k \in 1..Len(parts) : parts[k].iteration # parts[1].iteration
              THEN Panic("assertion failed: part.iteration == iteration")
              ELSE Ok([width |-> parts[1].width,
                       height |-> SumHeights(parts),
                       iteration |-> parts[1].iteration,
                       state |-> VecJoinVec([k \in 1..Len(parts) |-> parts[k].state])])

\* ------------------------------------------------------- solver/array.rs (dense)
\* The three arrays ca, za, ia are sequences of rows (Axis 0) of `width` values.
\* MbArrayState::initialize for the Viewport whose grid step is 1 on both axes
\* (x.length() = width - 1, y.length() = height - 1), lower corner (xmin, ymin).
MbArrayStateInitialize(width, height, xmin, ymin) ==
    LET ca == [y \in 1..height |-> [x \in 1..width |-> <<xmin + x - 1, ymin + y - 1>>]]
    IN [width |-> width, height |-> height, iteration |-> 0,
        ca |-> ca, za |-> ca,
        ia |-> [y \in 1..height |-> [x \in 1..width |-> UNSET]]]

\* MbArraySolver::iterate: every cell's z is advanced, escaped or not
MbArraySolverIterate(s) ==
    LET nza == [y \in 1..Len(s.za) |-> [x \in 1..Len(s.za[y]) |->
                   CSqAdd(s.za[y][x], s.ca[y][x])]]
        nia == [y \in 1..Len(s.ia) |-> [x \in 1..Len(s.ia[y]) |->
                   IF s.ia[y][x] = UNSET /\ NormGt(nza[y][x], Treshold)
                   THEN s.iteration + 1 ELSE s.ia[y][x]]]
    IN [s EXCEPT !.iteration = s.iteration + 1, !.za = nza, !.ia = nia]

RECURSIVE MbArraySolverLoop(_, _)
MbArraySolverLoop(s, k) ==
    IF k = 0 THEN s ELSE MbArraySolverLoop(MbArraySolverIterate(s), k - 1)

\* impl Solver<MbArrayState> for MbArraySolver: solve
MbArraySolverSolve(s) == MbArraySolverLoop(s, Iterations)

\* the s![m..n, ..] slice of a state
MbArrayStateSlice(s, m, n) ==
    [width |-> s.width, height |-> n - m, iteration |-> s.iteration,
     ca |-> SubSeq(s.ca, m + 1, n), za |-> SubSeq(s.za, m + 1, n),
     ia |-> SubSeq(s.ia, m + 1, n)]

\* impl Split for MbArrayState (solver/array.rs): split_to_vec
MbArrayStateSplitToVec(s, n) ==
    LET rs == RangeSplitterSplit(0, s.height, n)
    IN IF ~rs.ok THEN rs
       ELSE Ok([k \in 1..Len(rs.val) |-> MbArrayStateSlice(s, rs.val[k][1], rs.val[k][2])])

\* impl Split for MbArrayState (state/mod.rs): split_parts, the older partition
MbArrayStateSplitParts(s, n) ==
    IF n = 0 THEN Panic("attempt to divide by zero")
    ELSE LET h == s.height \div n
             h_xtra == s.height % n
         IN Ok([k \in 1..n |->
                  LET i == k - 1
                      height == IF i = n - 1 THEN h + h_xtra ELSE h
                      start == i * h
                  IN MbArrayStateSlice(s, start, start + height)])

\* impl Join for MbArrayState: join_vec (state/mod.rs join_parts is the same code)
MbArrayStateJoinVec(states) ==
    IF states = <<>> THEN Panic("index out of bounds")
    ELSE IF \E k \in 1..Len(states) : states[k].width # states[1].width
         THEN Panic("different width")
         ELSE IF \E k \in 1..Len(states) : states[k].iteration # states[1].iteration
              THEN Panic("different iteration")
              ELSE Ok([width |-> states[1].width,
                       height |-> SumHeights(states),
                       iteration |-> states[1].iteration,
                       ca |-> VecJoinVec([k \in 1..Len(states) |-> states[k].ca]),
                       za |-> VecJoinVec([k \in 1..Len(states) |-> states[k].za]),
                       ia |-> VecJoinVec([k \in 1..Len(states) |-> states[k].ia])])

\* ------------------------------------------------------- solver/simdvec.rs (SIMD-packed)
\* A SimdVecCell packs LANES cells: c, z and i are LANES-tuples; i holds INF while unset.
\* a plausible slip: no assertion, the cells past the last whole packed cell are dropped
SimdVecStateFromTruncating(v) ==
    LET cs == v.values
    IN Ok([width |-> v.width, height |-> v.height,
           state |-> [k \in 1..(Len(cs) \div LANES) |->
               LET c == [l \in 1..LANES |-> cs[LANES * (k - 1) + l]]
               IN [c |-> c, z |-> c, i |-> [l \in 1..LANES |-> INF]]]])

\* impl From<Coords<C<f64>>> for SimdVecState
SimdVecStateFrom(v) ==
    LET cs == v.values
    IN IF Len(cs) % LANES # 0 THEN Panic("oops")
       ELSE Ok([width |-> v.width, height |-> v.height,
                state |-> [k \in 1..(Len(cs) \div LANES) |->
                    LET c == [l \in 1..LANES |-> cs[LANES * (k - 1) + l]]
                    IN [c |-> c, z |-> c, i |-> [l \in 1..LANES |-> INF]]]])

Min(a, b) == IF a < b THEN a ELSE b

\* the loop body of SimdVecSolver::solve on one packed cell, `left` rounds to go
RECURSIVE SimdVecCellSolve(_, _, _)
SimdVecCellSolve(cell, iteration, left) ==
    IF left = 0 THEN cell
    ELSE LET it == iteration + 1
             z == [l \in 1..LANES |-> CSqAdd(cell.z[l], cell.c[l])]
             diverged_i == [l \in 1..LANES |-> IF NormGt(z[l], Treshold) THEN it ELSE INF]
         IN SimdVecCellSolve([cell EXCEPT !.z = z,
                                          !.i = [l \in 1..LANES |-> Min(cell.i[l], diverged_i[l])]],
                             it, left - 1)

\* impl Solver<SimdVecState> for SimdVecSolver: solve (the literal 100 rounds are
\* the model's Iterations)
SimdVecSolverSolve(s) ==
    [s EXCEPT !.state = [k \in 1..Len(s.state) |-> SimdVecCellSolve(s.state[k], 0, Iterations)]]

\* impl Split for SimdVecState: split_to_vec
SimdVecStateSplitToVec(s, n) ==
    LET rows == VecSplitToVec(s.state, s.height)
    IN IF ~rows.ok THEN rows
       ELSE LET row_groups == VecSplitToVec(rows.val, n)
            IN IF ~row_groups.ok THEN row_groups
               ELSE Ok([k \in 1..Len(row_groups.val) |->
                          [width |-> s.width,
                           height |-> Len(row_groups.val[k]),
                           state |-> VecJoinVec(row_groups.val[k])]])

\* impl Join for SimdVecState: join_vec
SimdVecStateJoinVec(parts) ==
    IF parts = <<>> THEN Panic("index out of bounds")
    ELSE IF \E k \in 1..Len(parts) : parts[k].width # parts[1].width
         THEN Panic("assertion failed: part.width == width")
         ELSE Ok([width |-> parts[1].width,
                  height |-> SumHeights(parts),
                  state |-> VecJoinVec([k \in 1..Len(parts) |-> parts[k].state])])

\* ------------------------------------------------------- the Split / Join / Solver traits
\* repr names the implementing type: "vec" MbVecState, "array" MbArrayState
\* (solver/array.rs), "legacy" MbArrayState (state/mod.rs), "simd" SimdVecState.
Reprs == {"vec", "array", "legacy", "simd"}

\* Split::split_to_vec, dispatched on the type
SplitToVec(repr, s, n) ==
    CASE repr = "vec" -> MbVecStateSplitToVec(s, n)
      [] repr = "array" -> MbArrayStateSplitToVec(s, n)
      [] repr = "legacy" -> MbArrayStateSplitParts(s, n)
      [] repr = "simd" -> SimdVecStateSplitToVec(s, n)

\* Join::join_vec, dispatched on the type
JoinVec(repr, parts) ==
    CASE repr = "vec" -> MbVecStateJoinVec(parts)
      [] repr = "array" -> MbArrayStateJoinVec(parts)
      [] repr = "legacy" -> MbArrayStateJoinVec(parts)
      [] repr = "simd" -> SimdVecStateJoinVec(parts)

\* Solver::solve, dispatched on the type
Solve(repr, s) ==
    CASE repr = "vec" -> MbVecSolverSolve(s)
      [] repr = "array" -> MbArraySolverSolve(s)
      [] repr = "legacy" -> MbArraySolverSolve(s)
      [] repr = "simd" -> SimdVecSolverSolve(s)

\* Split::to_parts: the parts tagged with their 0-based position
ToParts(repr, s, n) ==
    LET v == SplitToVec(repr, s, n)
    IN IF ~v.ok THEN v
       ELSE Ok([k \in 1..Len(v.val) |-> SplitPartNew(v.val[k], k - 1)])

RECURSIVE SplitPartFill(_, _)
\* a plausible slip: the slots are filled from the far end
SplitPartFillReversed(splits, slots) ==
    IF splits = <<>> THEN Ok(slots)
    ELSE LET s == Head(splits)
         IN IF s.n >= Len(slots) THEN JoinError
            ELSE IF slots[Len(slots) - s.n] # <<>> THEN JoinError
                 ELSE SplitPartFill(Tail(splits), [slots EXCEPT ![Len(slots) - s.n] = <<s.part>>])

\* the `for s in splits` loop of SplitPart::join; a slot is <<>> (None) or <<part>>
SplitPartFill(splits, slots) ==
    IF splits = <<>> THEN Ok(slots)
    ELSE LET s == Head(splits)
         IN IF s.n >= Len(slots) THEN JoinError
            ELSE IF slots[s.n + 1] # <<>> THEN JoinError
                 ELSE SplitPartFill(Tail(splits), [slots EXCEPT ![s.n + 1] = <<s.part>>])

\* a plausible slip: the parts are joined in the order of the list, tags ignored
SplitPartJoinInListOrder(repr, splits) ==
    IF Len(splits) = 0 THEN JoinError
    ELSE JoinVec(repr, [k \in 1..Len(splits) |-> splits[k].part])

\* SplitPart::join
SplitPartJoin(repr, splits) ==
    LET n == Len(splits)
    IN IF n = 0 THEN JoinError
       ELSE LET filled == SplitPartFill(splits, [k \in 1..n |-> <<>>])
            IN IF ~filled.ok THEN filled
               ELSE JoinVec(repr, [k \in 1..n |-> filled.val[k][1]])

\* ------------------------------------------------------- state
VARIABLES
    sj,     \* the split / join scenario: a state is split, parts are handled, parts are joined
    cfg,    \* the pools built: kind "flat" (one pool of n solver workers) or "nested"
            \* (a pool whose workers each own a pool of solver workers), the state type,
            \* and whether the per-part transform can panic
    caller, \* per pool, the thread inside WorkerPool::call: pc, input, parts still to
            \* send, results received so far (in arrival order), returned value
    wk,     \* per pool and worker, the worker thread: pc and the part it holds
    taskq,  \* per pool and worker, the private channel param_tx -> param_rx
    resq,   \* per pool, the shared result channel tx -> rx
    alive,  \* per pool, whether the WorkerPool value exists (built and not dropped)
    sent,   \* per pool and worker, the tags sent to the worker by the current call
    calls,  \* number of calls the main thread has made
    sv,     \* the solver scenario: one grid, a state per backend, solved repeatedly
    pan,    \* the pan scenario: a Mandelbrot whose window is moved
    vit,    \* the iteration scenario: a ViewboxIter and what it has yielded
    sa,     \* the shared-array scenario: a buffer split into parts written by threads
    mk,     \* the creation scenario: a window and the states created from it
    orch,   \* the orchestrator scenario: the thread of MandelbrotWorker::spawn_mandelbrot
    jn,     \* the tagged-join scenario: a list of SplitParts and what SplitPart::join returns
    mw,     \* the worker scenario: a BatchActionQueue / MandelbrotWorker and its threads
    au      \* the updater scenario: an AsyncUpdateController and its worker thread

vars == <<sj, cfg, caller, wk, taskq, resq, alive, sent, calls, sv, pan, vit, sa, mk, orch, jn, mw, au>>
poolVars == <<cfg, caller, wk, taskq, resq, alive, sent, calls>>
\* the scenarios other than the pools and the split / join
scenarioVars == <<sv, pan, vit, sa, mk, orch, jn, mw, au>>

\* a scenario that is not played
None == [pc |-> "none"]

\* the nesting of the benchmark "arr-mt2x2" and the flat pool it is compared with
OuterWorkers == 2
InnerWorkers == 2
FlatWorkers == 4

\* pool 0 is the pool the main thread calls; pool w (w >= 1) is owned by worker w of pool 0
PoolIds == 0..OuterWorkers
WorkerSlots == 1..(IF MaxWorkers > InnerWorkers THEN MaxWorkers ELSE InnerWorkers)
WorkerIds == PoolIds \X WorkerSlots

\* ------------------------------------------------------- inputs
Viewboxes ==
    {Viewbox(c[1], c[2], w, h) : c \in Centers, w \in 1..MaxWidth, h \in 1..MaxHeight}

\* the freshly created states of each type
FreshStates(repr) ==
    CASE repr = "vec" -> {MbVecStateFrom(v) : v \in Viewboxes}
      [] repr \in {"array", "legacy"} ->
            {MbArrayStateInitialize(v.width, v.height,
                                    ViewboxIntoIter(v).from_x, ViewboxIntoIter(v).y) :
                v \in {b \in Viewboxes : b.width >= 2 /\ b.height >= 2}}
      [] repr = "simd" ->
            {SimdVecStateFrom(GenerateComplexCoordinates(v)).val :
                v \in {b \in Viewboxes : (b.width * b.height) % LANES = 0}}

\* parts that do not come from the state being split (a caller's mistake)
ForeignStates(repr) ==
    CASE repr = "vec" -> {MbVecStateFrom(Viewbox(0, 0, w, 1)) : w \in 1..MaxWidth}
      [] repr \in {"array", "legacy"} ->
            {MbArrayStateInitialize(w, 2, 0, 0) : w \in 2..(MaxWidth + 1)}
      [] repr = "simd" ->
            {SimdVecStateFrom(GenerateComplexCoordinates(Viewbox(0, 0, w, LANES))).val :
                w \in 1..MaxWidth}

\* no pool is built
NoPools ==
    /\ cfg = [kind |-> "none", n |-> 0, repr |-> "vec", faulty |-> FALSE]
    /\ caller = [p \in PoolIds |-> [pc |-> "idle", input |-> <<>>, toSend |-> <<>>,
                                    received |-> <<>>, result |-> <<>>, err |-> ""]]
    /\ wk = [pw \in WorkerIds |-> [pc |-> "none", task |-> <<>>]]
    /\ taskq = [pw \in WorkerIds |-> <<>>]
    /\ resq = [p \in PoolIds |-> <<>>]
    /\ alive = [p \in PoolIds |-> FALSE]
    /\ sent = [pw \in WorkerIds |-> <<>>]
    /\ calls = 0

\* ------------------------------------------------------- the split / join scenario
SjInit ==
    \E repr \in Reprs : \E fresh \in FreshStates(repr) :
    \E n \in 0..MaxParts : \E solved \in BOOLEAN :
        /\ sj = [pc |-> "start", repr |-> repr,
                 S |-> IF solved THEN Solve(repr, fresh) ELSE fresh,
                 base |-> IF solved THEN Iterations ELSE 0,
                 n |-> n, parts |-> <<>>, steps |-> <<>>, foreign |-> FALSE,
                 out |-> Ok(<<>>)]
        /\ NoPools
        /\ sv = None /\ pan = None /\ vit = None /\ sa = None /\ mk = None /\ orch = None /\ jn = None /\ mw = None /\ au = None

\* S.to_parts(n)
SjSplit ==
    /\ sj.pc = "start"
    /\ LET r == ToParts(sj.repr, sj.S, sj.n)
       IN sj' = IF r.ok
                THEN [sj EXCEPT !.pc = "split", !.parts = r.val,
                                !.steps = [k \in 1..Len(r.val) |-> sj.base]]
                ELSE [sj EXCEPT !.pc = "failed", !.out = r]
    /\ UNCHANGED <<poolVars, scenarioVars>>

\* one part goes through the solver; steps[k] records the recurrence steps applied to it
SjSolvePart(k) ==
    /\ sj.pc = "split"
    /\ k \in 1..Len(sj.parts)
    /\ sj.steps[k] = sj.base
    /\ sj' = [sj EXCEPT !.parts[k].part = Solve(sj.repr, sj.parts[k].part),
                        !.steps[k] = sj.base + Iterations]
    /\ UNCHANGED <<poolVars, scenarioVars>>

\* one part is replaced by a state that was not split from S
SjForeignPart(k, f) ==
    /\ sj.pc = "split"
    /\ k \in 1..Len(sj.parts)
    /\ ~sj.foreign
    /\ sj' = [sj EXCEPT !.parts[k].part = f, !.steps[k] = 0, !.foreign = TRUE]
    /\ UNCHANGED <<poolVars, scenarioVars>>

\* SplitPart::join(parts)
SjJoin ==
    /\ sj.pc = "split"
    /\ sj' = [sj EXCEPT !.pc = "joined", !.out = SplitPartJoin(sj.repr, sj.parts)]
    /\ UNCHANGED <<poolVars, scenarioVars>>

SjNext ==
    \/ SjSplit
    \/ \E k \in 1..MaxParts : SjSolvePart(k)
    \/ \E k \in 1..MaxParts : \E f \in ForeignStates(sj.repr) : SjForeignPart(k, f)
    \/ SjJoin

SplitSpec == SjInit /\ [][SjNext]_vars

\* no part was solved or replaced since the split
SjUntouched ==
    /\ ~sj.foreign
    /\ \A k \in 1..Len(sj.steps) : sj.steps[k] = sj.base

\* C1: for every state S with height >= 1 and every n >= 1 (also n > height),
\* joining the parts of split(S, n) gives back S: the same cells in the same
\* order, the same width, height and iteration count.
C1_SplitJoinRoundTrip ==
    (sj.pc = "joined" /\ SjUntouched /\ sj.n >= 1 /\ sj.S.height >= 1)
        => (sj.out.ok /\ sj.out.val = sj.S)

\* a round trip with more parts than rows (some parts are empty) has happened
C1_Witness ==
    /\ sj.pc = "joined" /\ SjUntouched
    /\ sj.n > sj.S.height /\ sj.S.height >= 1
    /\ sj.out.ok

\* the rows of a scalar or dense state, top to bottom, each with all its cell data
StateRows(repr, s) ==
    IF repr = "vec"
    THEN [y \in 1..s.height |-> SubSeq(s.state, s.width * (y - 1) + 1, s.width * y)]
    ELSE [y \in 1..s.height |-> <<s.ca[y], s.za[y], s.ia[y]>>]

\* the row range the claim gives part k (1-based) of n for a state of h rows
ClaimedHeight(h, n, k) == (h \div n) + (IF k <= h % n THEN 1 ELSE 0)
ClaimedStart(h, n, k) == (k - 1) * (h \div n) + Min(k - 1, h % n)

\* right after a split of a state of a type in R: n parts, tagged 0..n-1 in order,
\* part k with the claimed number of rows and (scalar, dense) exactly those rows of S
SplitRangesHold(R) ==
    (sj.pc = "split" /\ SjUntouched /\ sj.repr \in R) =>
        /\ Len(sj.parts) = sj.n
        /\ \A k \in 1..Len(sj.parts) :
            LET p == sj.parts[k].part
                h == ClaimedHeight(sj.S.height, sj.n, k)
                st == ClaimedStart(sj.S.height, sj.n, k)
            IN /\ sj.parts[k].n = k - 1
               /\ p.height = h
               /\ p.width = sj.S.width
               /\ sj.repr # "simd" =>
                    StateRows(sj.repr, p) = SubSeq(StateRows(sj.repr, sj.S), st + 1, st + h)

SjIterationCount(k) ==
    IF sj.repr = "simd" THEN sj.steps[k] ELSE sj.parts[k].part.iteration

\* C10: join fails loudly, producing no joined state, whenever two of the parts
\* differ in width or in iteration count, for the scalar, dense and SIMD states.
C10_JoinRejectsMismatch ==
    (/\ sj.pc = "joined"
     /\ \E j, k \in 1..Len(sj.parts) :
            \/ sj.parts[j].part.width # sj.parts[k].part.width
            \/ SjIterationCount(j) # SjIterationCount(k))
        => ~sj.out.ok

\* ------------------------------------------------------- threads.rs: WorkerPool
\* self.workers.len() of pool p
NWorkers(p) ==
    CASE cfg.kind = "flat" -> IF p = 0 THEN cfg.n ELSE 0
      [] cfg.kind = "nested" -> IF p = 0 THEN OuterWorkers ELSE InnerWorkers
      [] OTHER -> 0

\* the workers of pool p run the solver itself (Solver::threaded); the workers of
\* the outer pool of a nesting run an inner pool's call (impl Solver for WorkerPool)
LeafPool(p) == cfg.kind = "flat" \/ p # 0

IdleCaller(input) ==
    [pc |-> "idle", input |-> input, toSend |-> <<>>, received |-> <<>>,
     result |-> <<>>, err |-> ""]

FatalCaller(c, msg) == [c EXCEPT !.pc = "fatal", !.err = msg, !.toSend = <<>>]

\* WorkerPool::call up to the dispatch loop, without the "no workers" assertion
CallBeginNoAssert(p, input) ==
    LET parts == ToParts(cfg.repr, input, NWorkers(p))
    IN IF ~parts.ok THEN FatalCaller(IdleCaller(input), parts.err)
       ELSE [IdleCaller(input) EXCEPT !.pc = "dispatch", !.toSend = parts.val]

\* WorkerPool::call up to the dispatch loop: the assertion, then t.to_parts(sn)
CallBegin(p, input) ==
    IF NWorkers(p) = 0 THEN FatalCaller(IdleCaller(input), "no workers")
    ELSE LET parts == ToParts(cfg.repr, input, NWorkers(p))
         IN IF ~parts.ok THEN FatalCaller(IdleCaller(input), parts.err)
            ELSE [IdleCaller(input) EXCEPT !.pc = "dispatch", !.toSend = parts.val]

\* a plausible slip: the receive loop waits for one result too many
ResultsNeededOneMore(p) == NWorkers(p) + 1

\* a plausible slip: the receive loop stops one result short
ResultsNeededOneShort(p) == NWorkers(p) - 1

\* the bound of `for _ in 0..sn` around self.rx.recv()
ResultsNeeded(p) == NWorkers(p)

\* a thread that has ended has dropped its receiver and its clone of the result sender
ThreadEnded(pw) == wk[pw].pc \in {"panicked", "exited"}

\* the live senders of pool p's result channel: the pool's own field tx, and the
\* return_tx clone each running worker thread holds
ResultSenders(p) ==
    (IF alive[p] THEN 1 ELSE 0)
    + Cardinality({w \in 1..NWorkers(p) : ~ThreadEnded(<<p, w>>)})

\* a plausible slip: a worker blocked in recv never learns that its sender is gone
TaskDisconnectedNever(p, w) == FALSE

\* param_rx.recv() returns Err: nothing queued and the Worker (its param_tx) dropped
TaskDisconnected(p, w) == taskq[<<p, w>>] = <<>> /\ ~alive[p]

\* the main thread calls pool 0 (the first input is fixed at construction; a later
\* call solves the state the previous call returned)
MainCall ==
    /\ caller[0].pc \in {"idle", "done"}
    /\ alive[0]
    /\ calls < MaxCalls
    /\ caller' = [caller EXCEPT ![0] =
                    CallBegin(0, IF caller[0].pc = "idle" THEN caller[0].input
                                 ELSE caller[0].result)]
    /\ sent' = [pw \in WorkerIds |-> IF pw[1] = 0 THEN <<>> ELSE sent[pw]]
    /\ calls' = calls + 1
    /\ UNCHANGED <<scenarioVars, sj, cfg, wk, taskq, resq, alive>>

\* one round of `for (worker, part) in zip(..) { worker.send(part) }`
CallSend(p) ==
    /\ caller[p].pc = "dispatch"
    /\ LET part == Head(caller[p].toSend)
           \* zip pairs the k-th worker with the k-th part
           k == NWorkers(p) - Len(caller[p].toSend) + 1
       IN IF ThreadEnded(<<p, k>>)
          THEN /\ caller' = [caller EXCEPT ![p] = FatalCaller(@, "SendError")]
               /\ UNCHANGED <<taskq, sent>>
          ELSE /\ taskq' = [taskq EXCEPT ![<<p, k>>] = Append(@, part)]
               /\ sent' = [sent EXCEPT ![<<p, k>>] = Append(@, part.n)]
               /\ caller' = [caller EXCEPT
                    ![p].toSend = Tail(@),
                    ![p].pc = IF Tail(caller[p].toSend) = <<>> THEN "await" ELSE "dispatch"]
    /\ UNCHANGED <<scenarioVars, sj, cfg, wk, resq, alive, calls>>

\* one round of `parts.push(self.rx.recv().unwrap())`; after the last one,
\* SplitPart::join(parts).unwrap()
CallRecv(p) ==
    /\ caller[p].pc = "await"
    /\ IF resq[p] # <<>>
       THEN LET got == Append(caller[p].received, Head(resq[p]))
            IN /\ resq' = [resq EXCEPT ![p] = Tail(@)]
               /\ IF Len(got) < ResultsNeeded(p)
                  THEN caller' = [caller EXCEPT ![p].received = got]
                  ELSE LET r == SplitPartJoin(cfg.repr, got)
                       IN caller' = [caller EXCEPT ![p] =
                            IF r.ok
                            THEN [@ EXCEPT !.pc = "done", !.received = got, !.result = r.val]
                            ELSE FatalCaller([@ EXCEPT !.received = got], r.err)]
       ELSE \* recv() blocks while any sender lives and fails once none does
            /\ ResultSenders(p) = 0
            /\ caller' = [caller EXCEPT ![p] = FatalCaller(@, "RecvError")]
            /\ UNCHANGED resq
    /\ UNCHANGED <<scenarioVars, sj, cfg, wk, taskq, alive, sent, calls>>

\* the pool is dropped by its owner while no call is in progress on it
PoolDrop ==
    /\ alive[0]
    /\ caller[0].pc \in {"idle", "done"}
    /\ alive' = [alive EXCEPT ![0] = FALSE]
    /\ UNCHANGED <<scenarioVars, sj, cfg, caller, wk, taskq, resq, sent, calls>>

\* ------------------------------------------------------- threads.rs: Worker
\* the pools a worker thread of pool p owns (dropped when the thread ends)
OwnedPools(p, w) == IF p = 0 /\ cfg.kind = "nested" THEN {w} ELSE {}

\* param_rx.recv(): a part, or Err when the pool's Worker is gone -> return
WorkerRecv(p, w) ==
    /\ wk[<<p, w>>].pc = "recv"
    /\ IF taskq[<<p, w>>] # <<>>
       THEN /\ wk' = [wk EXCEPT ![<<p, w>>] = [pc |-> "call", task |-> Head(taskq[<<p, w>>])]]
            /\ taskq' = [taskq EXCEPT ![<<p, w>>] = Tail(@)]
            /\ UNCHANGED alive
       ELSE /\ TaskDisconnected(p, w)
            /\ wk' = [wk EXCEPT ![<<p, w>>] = [pc |-> "exited", task |-> <<>>]]
            /\ alive' = [q \in PoolIds |-> IF q \in OwnedPools(p, w) THEN FALSE ELSE alive[q]]
            /\ UNCHANGED taskq
    /\ UNCHANGED <<scenarioVars, sj, cfg, caller, resq, sent, calls>>

\* a plausible slip: the result is sent twice
WorkerSendTwice(p, w, res) ==
    IF alive[p]
    THEN /\ resq' = [resq EXCEPT ![p] = Append(Append(@, SplitPartNew(res, wk[<<p, w>>].task.n)),
                                               SplitPartNew(res, wk[<<p, w>>].task.n))]
         /\ wk' = [wk EXCEPT ![<<p, w>>] = [pc |-> "recv", task |-> <<>>]]
         /\ UNCHANGED alive
    ELSE /\ wk' = [wk EXCEPT ![<<p, w>>] = [pc |-> "exited", task |-> <<>>]]
         /\ alive' = [q \in PoolIds |-> IF q \in OwnedPools(p, w) THEN FALSE ELSE alive[q]]
         /\ UNCHANGED resq

\* return_tx.send(SplitPart::new(res, splitted.n)); on is_err() the thread returns
WorkerSend(p, w, res) ==
    IF alive[p]
    THEN /\ resq' = [resq EXCEPT ![p] = Append(@, SplitPartNew(res, wk[<<p, w>>].task.n))]
         /\ wk' = [wk EXCEPT ![<<p, w>>] = [pc |-> "recv", task |-> <<>>]]
         /\ UNCHANGED alive
    ELSE /\ wk' = [wk EXCEPT ![<<p, w>>] = [pc |-> "exited", task |-> <<>>]]
         /\ alive' = [q \in PoolIds |-> IF q \in OwnedPools(p, w) THEN FALSE ELSE alive[q]]
         /\ UNCHANGED resq

\* a solver worker: res = f.call(splitted.part), then the send
WorkerReturn(p, w) ==
    /\ LeafPool(p)
    /\ wk[<<p, w>>].pc = "call"
    /\ WorkerSend(p, w, Solve(cfg.repr, wk[<<p, w>>].task.part))
    /\ UNCHANGED <<scenarioVars, sj, cfg, caller, taskq, sent, calls>>

\* f.call(splitted.part) panics: the thread unwinds and is gone
WorkerPanic(p, w) ==
    /\ LeafPool(p)
    /\ cfg.faulty
    /\ wk[<<p, w>>].pc = "call"
    /\ wk' = [wk EXCEPT ![<<p, w>>] = [pc |-> "panicked", task |-> <<>>]]
    /\ UNCHANGED <<scenarioVars, sj, cfg, caller, taskq, resq, alive, sent, calls>>

\* a worker of the outer pool enters f.call(part): the call of the pool it owns
WorkerCallInner(w) ==
    /\ ~LeafPool(0)
    /\ wk[<<0, w>>].pc = "call"
    /\ caller[w].pc = "idle"
    /\ caller' = [caller EXCEPT ![w] = CallBegin(w, wk[<<0, w>>].task.part)]
    /\ sent' = [pw \in WorkerIds |-> IF pw[1] = w THEN <<>> ELSE sent[pw]]
    /\ UNCHANGED <<scenarioVars, sj, cfg, wk, taskq, resq, alive, calls>>

\* the inner call returned: the outer worker sends its result
WorkerReturnInner(w) ==
    /\ ~LeafPool(0)
    /\ wk[<<0, w>>].pc = "call"
    /\ caller[w].pc = "done"
    /\ WorkerSend(0, w, caller[w].result)
    /\ caller' = [caller EXCEPT ![w] = IdleCaller(<<>>)]
    /\ UNCHANGED <<scenarioVars, sj, cfg, taskq, sent, calls>>

\* the inner call panicked inside the outer worker thread: the thread unwinds,
\* dropping the pool it owns
WorkerUnwind(w) ==
    /\ ~LeafPool(0)
    /\ wk[<<0, w>>].pc = "call"
    /\ caller[w].pc = "fatal"
    /\ wk' = [wk EXCEPT ![<<0, w>>] = [pc |-> "panicked", task |-> <<>>]]
    /\ alive' = [alive EXCEPT ![w] = FALSE]
    /\ UNCHANGED <<scenarioVars, sj, cfg, caller, taskq, resq, sent, calls>>

\* ------------------------------------------------------- the pool system
\* the state types the pools are built for
PoolReprs == {"vec", "array"}

Init ==
    /\ sj = None
    /\ sv = None /\ pan = None /\ vit = None /\ sa = None /\ mk = None /\ orch = None /\ jn = None /\ mw = None /\ au = None
    /\ \E repr \in PoolReprs :
         \/ \E n \in 0..MaxWorkers : \E faulty \in BOOLEAN :
              /\ faulty => n >= 1
              /\ cfg = [kind |-> "flat", n |-> n, repr |-> repr, faulty |-> faulty]
         \/ cfg = [kind |-> "nested", n |-> OuterWorkers, repr |-> repr, faulty |-> FALSE]
    /\ \E input \in FreshStates(cfg.repr) :
         caller = [p \in PoolIds |-> IdleCaller(IF p = 0 THEN input ELSE <<>>)]
    /\ wk = [pw \in WorkerIds |->
               [pc |-> IF pw[2] <= NWorkers(pw[1]) THEN "recv" ELSE "none", task |-> <<>>]]
    /\ taskq = [pw \in WorkerIds |-> <<>>]
    /\ resq = [p \in PoolIds |-> <<>>]
    /\ alive = [p \in PoolIds |-> p = 0 \/ cfg.kind = "nested"]
    /\ sent = [pw \in WorkerIds |-> <<>>]
    /\ calls = 0

\* the steps taken by worker threads (an inner pool's call runs on an outer worker)
WorkerStep ==
    \/ \E pw \in WorkerIds : WorkerRecv(pw[1], pw[2])
    \/ \E pw \in WorkerIds : WorkerReturn(pw[1], pw[2])
    \/ \E pw \in WorkerIds : WorkerPanic(pw[1], pw[2])
    \/ \E w \in 1..OuterWorkers : WorkerCallInner(w)
    \/ \E w \in 1..OuterWorkers : WorkerReturnInner(w)
    \/ \E w \in 1..OuterWorkers : WorkerUnwind(w)
    \/ \E p \in 1..OuterWorkers : CallSend(p)
    \/ \E p \in 1..OuterWorkers : CallRecv(p)

\* the steps taken by the main thread
MainStep ==
    \/ MainCall
    \/ CallSend(0)
    \/ CallRecv(0)
    \/ PoolDrop

Next == MainStep \/ WorkerStep

Spec == Init /\ [][Next]_vars

\* a worker thread blocked in param_rx.recv() is woken when a part arrives or the
\* channel disconnects (each worker is an OS thread of its own)
FairSpec ==
    Init /\ [][Next]_vars /\ \A pw \in WorkerIds : WF_vars(WorkerRecv(pw[1], pw[2]))

\* ------------------------------------------------------- claims about the pool
\* WorkerPool::call as a function of the pool size and the input: the parts of
\* to_parts(n), each solved, joined by tag
PoolCallValue(repr, n, input) ==
    IF n = 0 THEN Panic("no workers")
    ELSE LET parts == ToParts(repr, input, n)
         IN IF ~parts.ok THEN parts
            ELSE SplitPartJoin(repr,
                    [k \in 1..Len(parts.val) |->
                        SplitPartNew(Solve(repr, parts.val[k].part), parts.val[k].n)])

\* C2: for a fixed pool and input the value call returns is the same whatever the
\* order in which the workers deliver: every finished call of a solver pool holds
\* the one value determined by (pool size, input), the parts placed by tag.
C2_ResultIndependentOfArrival ==
    \A p \in PoolIds :
        (caller[p].pc = "done" /\ LeafPool(p)) =>
            LET v == PoolCallValue(cfg.repr, NWorkers(p), caller[p].input)
            IN v.ok /\ caller[p].result = v.val

\* a call returned although a later part's result arrived before an earlier part's
C2_Witness ==
    /\ caller[0].pc = "done" /\ cfg.kind = "flat"
    /\ \E j, k \in 1..Len(caller[0].received) :
            j < k /\ caller[0].received[j].n > caller[0].received[k].n

C4_DispatchAndBlock ==
    \A p \in PoolIds :
        caller[p].pc \in {"dispatch", "await", "done"} =>
            LET n == NWorkers(p)
                c == caller[p]
            IN /\ Len(c.toSend) + Cardinality({w \in 1..n : sent[<<p, w>>] # <<>>}) = n
               /\ \A w \in 1..n :
                    /\ sent[<<p, w>>] \in {<<>>, <<w - 1>>}
                    /\ c.pc # "dispatch" => sent[<<p, w>>] = <<w - 1>>
                    /\ \A k \in 1..Len(taskq[<<p, w>>]) : taskq[<<p, w>>][k].n = w - 1
                    /\ wk[<<p, w>>].pc = "call" => wk[<<p, w>>].task.n = w - 1
               /\ c.pc \in {"dispatch", "await"} =>
                    (c.result = <<>> /\ Len(c.received) < n)
               /\ c.pc = "done" =>
                    (Len(c.received) = n
                     /\ {c.received[k].n : k \in 1..n} = 0..(n - 1))

\* the caller is blocked after some, but not all, results have arrived
C4_Witness ==
    /\ caller[0].pc = "await"
    /\ NWorkers(0) >= 2
    /\ Len(caller[0].received) >= 1
    /\ caller[0].result = <<>>

\* the caller of pool p is blocked in rx.recv() and stays blocked: no result is
\* queued, every worker of the pool is dead or idle waiting for a task that only
\* the blocked caller could send, and the channel still has a sender (the pool's)
CallBlockedForever(p) ==
    /\ caller[p].pc = "await"
    /\ resq[p] = <<>>
    /\ ResultSenders(p) > 0
    /\ \A w \in 1..NWorkers(p) :
          \/ wk[<<p, w>>].pc = "panicked"
          \/ wk[<<p, w>>].pc = "recv" /\ taskq[<<p, w>>] = <<>>

\* C5: if a worker thread panics while transforming its part of an in-flight call,
\* the call ends with a fatal error: it does not return a joined result and it
\* does not block forever.
C5_WorkerPanicEndsCall ==
    (\E w \in 1..NWorkers(0) : wk[<<0, w>>].pc = "panicked") =>
        /\ caller[0].pc # "done"
        /\ ~CallBlockedForever(0)

\* every thread of every pool has ended
AllWorkersEnded == \A pw \in WorkerIds : wk[pw].pc \in {"none", "exited", "panicked"}

\* C6: after a pool with no call in progress is dropped, every worker thread
\* eventually finds its task channel disconnected and leaves its loop.
C6_DroppedPoolWorkersExit == (~alive[0]) ~> AllWorkersEnded

\* a pool that served a call was dropped and all its worker threads have exited
C6_Witness ==
    /\ ~alive[0] /\ calls >= 1 /\ NWorkers(0) >= 2
    /\ \A w \in 1..NWorkers(0) : wk[<<0, w>>].pc = "exited"

\* C7: a pool of 2 workers whose transform is a pool of 2 workers returns, for
\* every input state, what a flat pool of 4 workers returns: the nested call does
\* not fail, does not block forever, and ends with the flat pool's value.
C7_NestedEqualsFlat ==
    cfg.kind = "nested" =>
        LET flat == PoolCallValue(cfg.repr, FlatWorkers, caller[0].input)
        IN /\ caller[0].pc # "fatal"
           /\ ~CallBlockedForever(0)
           /\ caller[0].pc = "done" => (flat.ok /\ caller[0].result = flat.val)

\* C9: splitting into n = 0 parts is an error (split fails, no parts), and call on
\* a pool with zero workers fails with the "no workers" assertion before any part
\* is sent.
C9_ZeroPartsIsAnError ==
    /\ ~ToParts(cfg.repr, caller[0].input, 0).ok
    /\ (NWorkers(0) = 0 /\ caller[0].pc # "idle") =>
          /\ caller[0].pc = "fatal"
          /\ caller[0].err = "no workers"
          /\ \A pw \in WorkerIds : sent[pw] = <<>> /\ taskq[pw] = <<>>

\* a pool without workers was called
C9_Witness ==
    /\ cfg.kind = "flat" /\ cfg.n = 0
    /\ caller[0].pc = "fatal"
    /\ calls = 1

\* ------------------------------------------------------- the solver scenario
\* the number of solve calls made on one state
MaxSolves == 2

\* the solver backends: scalar (solver/vec.rs), dense (solver/array.rs), SIMD-packed
Backends == {"vec", "array", "simd"}

\* the backends that have a state for the grid of window v: the dense grid divides
\* by width - 1 and height - 1, the SIMD state packs the cells four by four
SvBackends(v) ==
    {"vec"}
    \cup (IF v.width >= 2 /\ v.height >= 2 THEN {"array"} ELSE {})
    \cup (IF (v.width * v.height) % LANES = 0 THEN {"simd"} ELSE {})

\* the freshly created state of backend b for window v
SvFresh(b, v) ==
    CASE b = "vec" -> MbVecStateFrom(v)
      [] b = "array" -> MbArrayStateInitialize(v.width, v.height,
                                               ViewboxIntoIter(v).from_x, ViewboxIntoIter(v).y)
      [] b = "simd" -> SimdVecStateFrom(GenerateComplexCoordinates(v)).val

\* MbState::i_value(x, y) of each backend, x and y 0-based
IValue(b, s, x, y) ==
    CASE b = "vec" -> s.state[y * s.width + x + 1].i
      [] b = "array" -> s.ia[y + 1][x + 1]
      [] b = "simd" ->
            LET n == s.width * y + x
                ival == s.state[(n \div LANES) + 1].i[(n % LANES) + 1]
            IN IF ival = INF THEN -1 ELSE ival

SvOthersIdle == sj = None /\ NoPools /\ pan = None /\ vit = None /\ sa = None
    /\ mk = None /\ orch = None /\ jn = None /\ mw = None /\ au = None

SvInit ==
    /\ \E v \in Viewboxes :
         sv = [pc |-> "run", vb |-> v,
               cur |-> [b \in SvBackends(v) |-> SvFresh(b, v)],
               prev |-> [b \in SvBackends(v) |-> SvFresh(b, v)],
               n |-> [b \in SvBackends(v) |-> 0]]
    /\ SvOthersIdle

\* solver.solve(state) on the state of backend b
SvSolve(b) ==
    /\ sv.pc = "run"
    /\ b \in DOMAIN sv.cur
    /\ sv.n[b] < MaxSolves
    /\ sv' = [sv EXCEPT !.prev[b] = sv.cur[b],
                        !.cur[b] = Solve(b, sv.cur[b]),
                        !.n[b] = @ + 1]
    /\ UNCHANGED <<sj, poolVars, pan, vit, sa, mk, orch, jn, mw, au>>

SvNext == \E b \in Backends : SvSolve(b)

SolveSpec == SvInit /\ [][SvNext]_vars

\* the pixels (x, y) of the grid, 0-based
SvPixels == (0..(sv.vb.width - 1)) \X (0..(sv.vb.height - 1))

\* the complex coordinate of pixel xy
SvCoord(xy) == <<ViewboxIntoIter(sv.vb).from_x + xy[1], ViewboxIntoIter(sv.vb).y + xy[2]>>

\* C11: for every backend and every cell, once i_value is set after a solve, a
\* further solve call on the resulting state leaves that i_value unchanged.
C11_EscapeMonotone ==
    sv.pc = "run" =>
        \A b \in DOMAIN sv.cur : \A xy \in SvPixels :
            (sv.n[b] >= 2 /\ IValue(b, sv.prev[b], xy[1], xy[2]) # UNSET) =>
                IValue(b, sv.cur[b], xy[1], xy[2]) = IValue(b, sv.prev[b], xy[1], xy[2])

\* C12: for the same grid, threshold and iteration budget, the scalar, dense and
\* SIMD-packed solvers give every pixel the same i_value.
C12_BackendAgreement ==
    (sv.pc = "run" /\ DOMAIN sv.cur = Backends /\ \A b \in Backends : sv.n[b] = 1) =>
        \A xy \in SvPixels : \A a, b \in Backends :
            IValue(a, sv.cur[a], xy[1], xy[2]) = IValue(b, sv.cur[b], xy[1], xy[2])

\* the 1-based number of the first recurrence step z <- z*z + c (from z = c) after
\* which |z| > threshold, among the first m steps; UNSET when there is none
RECURSIVE FirstEscape(_, _, _, _)
FirstEscape(z, c, j, m) ==
    IF j > m THEN UNSET
    ELSE LET z1 == CSqAdd(z, c)
         IN IF NormGt(z1, Treshold) THEN j ELSE FirstEscape(z1, c, j + 1, m)

\* C13: when a cell first has |z| > threshold, solve sets its i to the 1-based
\* number of the recurrence step at which this happened (c = 2+0i, threshold 2: 1).
C13_EscapeStepOneBased ==
    sv.pc = "run" =>
        \A b \in DOMAIN sv.cur : \A xy \in SvPixels :
            sv.n[b] = 1 =>
                IValue(b, sv.cur[b], xy[1], xy[2])
                    = FirstEscape(SvCoord(xy), SvCoord(xy), 1, Iterations)

\* C14: after k solve calls on a freshly created state, iteration_count is the
\* number of recurrence steps applied so far, k times the budget.
C14_IterationCount ==
    sv.pc = "run" =>
        \A b \in DOMAIN sv.cur \cap {"vec", "array"} :
            sv.cur[b].iteration = sv.n[b] * Iterations

\* ------------------------------------------------------- solver/mod.rs: D2ArrayLike
\* A 2-d array is [width, height, cells], cells in row-major order; copy_from and
\* copy_self copy the one cell at `from` to `to`.
D2Max(a, b) == IF a > b THEN a ELSE b

\* D2ArrayLike::idx(row, col) for an array of h rows and w columns
D2Idx(h, w, row, col) ==
    IF row <= 0 /\ h + row < 0 THEN Panic("assertion failed: h + row >= 0")
    ELSE IF col <= 0 /\ w + col < 0 THEN Panic("assertion failed: w + col >= 0")
    ELSE Ok([row_start |-> IF row > 0 THEN 0 ELSE h + row,
             row_end |-> IF row > 0 THEN row ELSE h,
             col_start |-> IF col > 0 THEN 0 ELSE w + col,
             col_end |-> IF col > 0 THEN col ELSE w])

\* D2ArrayLike::copy_slice(p1, p2), p1 = (x1, y1), p2 = (x2, y2)
D2CopySlice(g, x1, y1, x2, y2) ==
    LET xmax == D2Max(x1, x2)
        xmin == Min(x1, x2)
        ymax == D2Max(y1, y2)
        ymin == Min(y1, y2)
        nw == xmax - xmin
        nh == ymax - ymin
    IN IF xmax > g.width THEN Panic("assertion failed: xmax <= self.width()")
       ELSE IF ymax > g.height THEN Panic("assertion failed: ymax <= self.height()")
       ELSE Ok([width |-> nw, height |-> nh,
                cells |-> [k \in 1..(nw * nh) |->
                    g.cells[(ymin + ((k - 1) \div nw)) * g.width + xmin + ((k - 1) % nw) + 1]]])

\* a plausible slip: the rows are taken from the other end of the array
D2CopyRowsOtherEnd(g, row) ==
    LET i == D2Idx(g.height, g.width, -row, g.width)
    IN IF ~i.ok THEN i
       ELSE D2CopySlice(g, i.val.col_start, i.val.row_start, i.val.col_end, i.val.row_end)

\* D2ArrayLike::copy_rows(row)
D2CopyRows(g, row) ==
    LET i == D2Idx(g.height, g.width, row, g.width)
    IN IF ~i.ok THEN i
       ELSE D2CopySlice(g, i.val.col_start, i.val.row_start, i.val.col_end, i.val.row_end)

\* D2ArrayLike::copy_cols(col)
D2CopyCols(g, col) ==
    LET i == D2Idx(g.height, g.width, g.height, col)
    IN IF ~i.ok THEN i
       ELSE D2CopySlice(g, i.val.col_start, i.val.row_start, i.val.col_end, i.val.row_end)

\* the in-place loop of shift_rows over the rows ys (in the order of y_iter)
RECURSIVE D2ShiftRowsLoop(_, _, _, _, _, _)
D2ShiftRowsLoop(cells, ys, w, h, row, src) ==
    IF ys = <<>> THEN cells
    ELSE LET y == Head(ys)
             source_y == y - row
             cp_y_offset == IF row > 0 THEN row ELSE -h
         IN D2ShiftRowsLoop(
                [k \in 1..Len(cells) |->
                    IF (k - 1) \div w = y
                    THEN IF source_y >= 0 /\ source_y < h
                         THEN cells[source_y * w + ((k - 1) % w) + 1]
                         ELSE src.cells[(y - row + cp_y_offset) * w + ((k - 1) % w) + 1]
                    ELSE cells[k]],
                Tail(ys), w, h, row, src)

\* D2ArrayLike::shift_rows(row, Some(src))
D2ShiftRows(g, row, src) ==
    IF src.height # (IF row < 0 THEN -row ELSE row)
    THEN Panic("assertion failed: copysrc.height() == row.unsigned_abs()")
    ELSE IF src.width # g.width
    THEN Panic("assertion failed: copysrc.width() == self.width()")
    ELSE IF row = 0 THEN Ok(g)
    ELSE Ok([g EXCEPT !.cells =
                D2ShiftRowsLoop(g.cells,
                    [k \in 1..g.height |-> IF row > 0 THEN g.height - k ELSE k - 1],
                    g.width, g.height, row, src)])

\* the in-place loop of shift_cols over the columns xs (in the order of x_iter)
RECURSIVE D2ShiftColsLoop(_, _, _, _, _)
D2ShiftColsLoop(cells, xs, w, col, src) ==
    IF xs = <<>> THEN cells
    ELSE LET x == Head(xs)
             source_x == x - col
             cp_x_offset == IF col > 0 THEN col ELSE -w
         IN D2ShiftColsLoop(
                [k \in 1..Len(cells) |->
                    IF (k - 1) % w = x
                    THEN IF source_x >= 0 /\ source_x < w
                         THEN cells[((k - 1) \div w) * w + source_x + 1]
                         ELSE src.cells[((k - 1) \div w) * src.width
                                        + (x - col + cp_x_offset) + 1]
                    ELSE cells[k]],
                Tail(xs), w, col, src)

\* a plausible slip: the columns are shifted but the new strip is not spliced in
D2ShiftColsNoSplice(g, col, src) ==
    IF src.height # g.height
    THEN Panic("assertion failed: copysrc.height() == self.height()")
    ELSE IF src.width # (IF col < 0 THEN -col ELSE col)
    THEN Panic("assertion failed: copysrc.width() == col.unsigned_abs()")
    ELSE IF col = 0 THEN Ok(g)
    ELSE Ok([g EXCEPT !.cells =
                D2ShiftColsLoop(g.cells,
                    [k \in 1..g.width |-> IF col > 0 THEN g.width - k ELSE k - 1],
                    g.width, col, [src EXCEPT !.cells = g.cells])])

\* D2ArrayLike::shift_cols(col, Some(src))
D2ShiftCols(g, col, src) ==
    IF src.height # g.height
    THEN Panic("assertion failed: copysrc.height() == self.height()")
    ELSE IF src.width # (IF col < 0 THEN -col ELSE col)
    THEN Panic("assertion failed: copysrc.width() == col.unsigned_abs()")
    ELSE IF col = 0 THEN Ok(g)
    ELSE Ok([g EXCEPT !.cells =
                D2ShiftColsLoop(g.cells,
                    [k \in 1..g.width |-> IF col > 0 THEN g.width - k ELSE k - 1],
                    g.width, col, src)])

\* ------------------------------------------------------- lib.rs: Mandelbrot
\* num_cpus::get_physical(): the size of the pool Mandelbrot::initialize builds
NumCpus == 2
\* the largest window side, the largest shift, the number of moves of the pan scenario
MaxPanSide == 3
MaxShift == 3
MaxMoves == 1
\* relative pans are fractions q / PanDen of the window side (exact in f64)
PanDen == 2

\* the coordinate grid of a window as a 2-d array
Coords(v) == [width |-> v.width, height |-> v.height,
              cells |-> GenerateComplexCoordinates(v).values]

\* coords.into(): the fresh escape state of a coordinate grid
CoordsInto(g) ==
    [width |-> g.width, height |-> g.height, iteration |-> 0,
     state |-> [k \in 1..Len(g.cells) |-> [c |-> g.cells[k], z |-> g.cells[k], i |-> UNSET]]]

\* an escape state as a 2-d array of cells
StateGrid(s) == [width |-> s.width, height |-> s.height, cells |-> s.state]

\* self.solver.solve(state): the solver is the pool of NumCpus scalar solvers;
\* WorkerPool::call splits the state in NumCpus parts, has each solved by a
\* worker and joins the solved parts placed by tag
MandelbrotSolve(s) ==
    LET parts == MbVecStateSplitToVec(s, NumCpus)
    IN IF ~parts.ok THEN parts
       ELSE MbVecStateJoinVec([k \in 1..Len(parts.val) |-> MbVecSolverSolve(parts.val[k])])

\* the outcome of a Mandelbrot method: the Mandelbrot after it, or a panic
MOk(position, state) == [ok |-> TRUE, position |-> position, state |-> state, err |-> ""]
MPanic(position, state, err) ==
    [ok |-> FALSE, position |-> position, state |-> state, err |-> err]

\* the `let new_state_rows = self.solver.solve(&new_coord_rows.into())` statement,
\* new_coord_rows being the outcome of copy_rows / copy_cols
PanSolveStrip(new_coords) ==
    IF ~new_coords.ok THEN new_coords ELSE MandelbrotSolve(CoordsInto(new_coords.val))

\* the Mandelbrot after the statements of a fast pan: the position is assigned
\* first, the state only by a shift that did not panic
PanOutcome(m, position, shifted) ==
    IF shifted.ok THEN MOk(position, [m.state EXCEPT !.state = shifted.val.cells])
    ELSE MPanic(position, m.state, shifted.err)

\* Mandelbrot::pan_fast_vertical(y); each statement's value is computed once
PanFastVertical(m, y) ==
    LET position == [m.position EXCEPT !.center = <<@[1], @[2] + y>>]
        Shift(new_state_rows) ==
            IF ~new_state_rows.ok THEN new_state_rows
            ELSE D2ShiftRows(StateGrid(m.state), -y, StateGrid(new_state_rows.val))
    IN CHOOSE r \in
         {PanOutcome(m, position, shifted) : shifted \in
            {Shift(new_state_rows) : new_state_rows \in
               {PanSolveStrip(new_coord_rows) : new_coord_rows \in
                  {D2CopyRows(Coords(position), -y)}}}} : TRUE

\* Mandelbrot::pan_fast_horizontal(x); each statement's value is computed once
PanFastHorizontal(m, x) ==
    LET position == [m.position EXCEPT !.center = <<@[1] + x, @[2]>>]
        Shift(new_stat_cols) ==
            IF ~new_stat_cols.ok THEN new_stat_cols
            ELSE D2ShiftCols(StateGrid(m.state), -x, StateGrid(new_stat_cols.val))
    IN CHOOSE r \in
         {PanOutcome(m, position, shifted) : shifted \in
            {Shift(new_stat_cols) : new_stat_cols \in
               {PanSolveStrip(new_coord_cols) : new_coord_cols \in
                  {D2CopyCols(Coords(position), -x)}}}} : TRUE

\* (q / PanDen * side).round() as i64: f64::round rounds half away from zero
RoundFraction(q, side) ==
    IF q >= 0 THEN (2 * q * side + PanDen) \div (2 * PanDen)
    ELSE -((2 * (-q) * side + PanDen) \div (2 * PanDen))

\* Mandelbrot::pan_fast_vertical_relative(q / PanDen)
PanFastVerticalRelative(m, q) ==
    LET ny == RoundFraction(q, m.position.height)
    IN IF ny # 0 THEN PanFastVertical(m, ny) ELSE MOk(m.position, m.state)

\* Mandelbrot::pan_fast_horizontal_relative(q / PanDen)
PanFastHorizontalRelative(m, q) ==
    LET nx == RoundFraction(q, m.position.width)
    IN IF nx # 0 THEN PanFastHorizontal(m, nx) ELSE MOk(m.position, m.state)

\* ------------------------------------------------------- the pan scenario
PanOthersIdle == sj = None /\ NoPools /\ sv = None /\ vit = None /\ sa = None
    /\ mk = None /\ orch = None /\ jn = None /\ mw = None /\ au = None

\* a Mandelbrot after initialize and set_position: a window of scale 1 and its
\* solved state
PanInit ==
    /\ \E c \in Centers : \E w, h \in 1..MaxPanSide :
         LET position == Viewbox(c[1], c[2], w, h)
             m == [position |-> position,
                   state |-> MandelbrotSolve(CoordsInto(Coords(position))).val]
         IN pan = [pc |-> "run", m |-> m, prev |-> m, err |-> "", moves |-> 0,
                   last |-> [op |-> "initialize", x |-> 0, y |-> 0]]
    /\ PanOthersIdle

\* the thread owning the Mandelbrot is alive and may handle one more call
PanReady == pan.pc = "run" /\ pan.moves < MaxMoves

\* the Mandelbrot after a method or handler with outcome r, remembering the call
PanStep(op, x, y, r) ==
    /\ pan' = [pc |-> IF r.ok THEN "run" ELSE "panicked",
               m |-> [position |-> r.position, state |-> r.state],
               prev |-> pan.m, err |-> r.err, moves |-> pan.moves + 1,
               last |-> [op |-> op, x |-> x, y |-> y]]
    /\ UNCHANGED <<sj, poolVars, sv, vit, sa, mk, orch, jn, mw, au>>

\* a direct call of pan_fast_vertical(y)
PanVertical(y) ==
    /\ PanReady
    /\ \E r \in {PanFastVertical(pan.m, y)} : PanStep("pan_fast_vertical", 0, y, r)

\* a direct call of pan_fast_horizontal(x)
PanHorizontal(x) ==
    /\ PanReady
    /\ \E r \in {PanFastHorizontal(pan.m, x)} : PanStep("pan_fast_horizontal", x, 0, r)

\* spawn_mandelbrot, Ok(MAction::PanRelative(x, y)) with an existing Mandelbrot,
\* x = qx / PanDen, y = qy / PanDen; a panic of the first call ends the thread
HandlePanRelative(qx, qy) ==
    /\ PanReady
    /\ \E r1 \in {IF qy # 0 THEN PanFastVerticalRelative(pan.m, qy)
                   ELSE MOk(pan.m.position, pan.m.state)} :
       \E r2 \in {IF r1.ok /\ qx # 0 THEN PanFastHorizontalRelative(r1, qx) ELSE r1} :
           PanStep("PanRelative", RoundFraction(qx, pan.m.position.width),
                   RoundFraction(qy, pan.m.position.height), r2)

\* spawn_mandelbrot, Ok(MAction::Pan(x, y)) with an existing Mandelbrot
HandlePan(x, y) ==
    /\ PanReady
    /\ \E r1 \in {IF x # 0 THEN PanFastVertical(pan.m, y)
                   ELSE MOk(pan.m.position, pan.m.state)} :
       \E r2 \in {IF r1.ok /\ y # 0 THEN PanFastHorizontal(r1, x) ELSE r1} :
           PanStep("Pan", x, y, r2)

\* a plausible slip: the position is assigned and the state is left as it was
MandelbrotResolveKeepsState(m, position) == MOk(position, m.state)

\* the statement shared by resize, set_position, zoom and pan, after the position
\* was assigned: self.state = self.solver.solve(
\*     self.position.generate_complex_coordinates().into())
MandelbrotResolve(m, position) ==
    CHOOSE o \in {IF r.ok THEN MOk(position, r.val) ELSE MPanic(position, m.state, r.err) :
                    r \in {MandelbrotSolve(CoordsInto(Coords(position)))}} : TRUE

\* Mandelbrot::resize(width, height)
PanResize(w, h) ==
    /\ PanReady
    /\ \E r \in {MandelbrotResolve(pan.m, [pan.m.position EXCEPT !.height = h, !.width = w])} :
         PanStep("resize", w, h, r)

\* Mandelbrot::set_position(position)
PanSetPosition(v) ==
    /\ PanReady
    /\ \E r \in {MandelbrotResolve(pan.m, v)} :
         PanStep("set_position", v.center[1], v.center[2], r)

\* Mandelbrot::zoom(1.0): Viewbox::zoom leaves a window of scale 1 as it is
PanZoom ==
    /\ PanReady
    /\ \E r \in {MandelbrotResolve(pan.m, pan.m.position)} : PanStep("zoom", 0, 0, r)

\* Mandelbrot::pan(x, y)
PanFull(x, y) ==
    /\ PanReady
    /\ \E r \in {MandelbrotResolve(pan.m,
                     [pan.m.position EXCEPT !.center = <<@[1] + x, @[2] + y>>])} :
         PanStep("pan", x, y, r)

\* Mandelbrot::pan_relative(qx / PanDen, qy / PanDen)
PanRelativeFull(qx, qy) ==
    /\ PanReady
    /\ \E nx \in {RoundFraction(qx, pan.m.position.width)} :
       \E ny \in {RoundFraction(qy, pan.m.position.height)} :
       \E r \in {MandelbrotResolve(pan.m,
                     [pan.m.position EXCEPT !.center = <<@[1] + nx, @[2] + ny>>])} :
         PanStep("pan_relative", nx, ny, r)

PanNext ==
    \/ \E y \in (-MaxShift)..MaxShift : PanVertical(y)
    \/ \E x \in (-MaxShift)..MaxShift : PanHorizontal(x)
    \/ \E qx, qy \in (-PanDen)..PanDen : HandlePanRelative(qx, qy)
    \/ \E x, y \in (-MaxShift)..MaxShift : HandlePan(x, y)
    \/ \E w, h \in 1..MaxPanSide : PanResize(w, h)
    \/ \E c \in Centers : \E w, h \in 1..MaxPanSide : PanSetPosition(Viewbox(c[1], c[2], w, h))
    \/ PanZoom
    \/ \E x, y \in (-1)..1 : PanFull(x, y)
    \/ \E qx, qy \in (-PanDen)..PanDen : PanRelativeFull(qx, qy)

PanSpec == PanInit /\ [][PanNext]_vars

\* ------------------------------------------------------- claims about the pan
Abs(a) == IF a < 0 THEN -a ELSE a

\* the pixels (x, y) of a window, 0-based
PanPixels(position) == (0..(position.width - 1)) \X (0..(position.height - 1))

\* the window solved from scratch by the scalar solver on one thread
PanScratch(position) == MbVecSolverSolve(CoordsInto(Coords(position)))

\* m holds a state solved for its window
PanSolvedFor(m) == m.state = PanScratch(m.position)

\* state s has at every pixel of the window the i_value of the window solved
\* from scratch
PanSameIValues(s, position) ==
    LET scratch == PanScratch(position)
    IN /\ s.width = position.width /\ s.height = position.height
       /\ \A xy \in PanPixels(position) :
            IValue("vec", s, xy[1], xy[2]) = IValue("vec", scratch, xy[1], xy[2])

\* the last call was one fast pan along one axis by d, the side along it being n
PanLastVertical == pan.pc # "none" /\ pan.last.op = "pan_fast_vertical"
PanLastHorizontal == pan.pc # "none" /\ pan.last.op = "pan_fast_horizontal"

\* C15: from a state solved for its window, a vertical fast pan by dy with
\* 0 < |dy| < height, or a horizontal one by dx with 0 < |dx| < width, ends
\* without panic in a state whose i_value at every pixel is that of the
\* translated window solved from scratch.
C15_IncrementalPanEquivalence ==
    (/\ PanLastVertical \/ PanLastHorizontal
     /\ PanSolvedFor(pan.prev)
     /\ \/ PanLastVertical /\ 0 < Abs(pan.last.y)
                            /\ Abs(pan.last.y) < pan.prev.position.height
        \/ PanLastHorizontal /\ 0 < Abs(pan.last.x)
                              /\ Abs(pan.last.x) < pan.prev.position.width)
    => /\ pan.pc = "run"
       /\ pan.m.position.center = <<pan.prev.position.center[1] + pan.last.x,
                                    pan.prev.position.center[2] + pan.last.y>>
       /\ PanSameIValues(pan.m.state, pan.m.position)

\* a vertical fast pan by two rows of a window of three rows, whose result has
\* escaped and unescaped pixels
C15_Witness ==
    /\ PanLastVertical /\ pan.pc = "run"
    /\ PanSolvedFor(pan.prev)
    /\ pan.prev.position.height = 3 /\ Abs(pan.last.y) = 2
    /\ \E a, b \in PanPixels(pan.m.position) :
            /\ IValue("vec", pan.m.state, a[1], a[2]) = UNSET
            /\ IValue("vec", pan.m.state, b[1], b[2]) # UNSET

\* C16: from a state solved for its window, the PanRelative handler with both
\* shifts non-zero (and each smaller than the side along it) performs the vertical
\* fast pan and then the horizontal one, and ends in a state whose i_value at
\* every pixel, the corner covered by both strips included, is that of the final
\* window solved from scratch.
C16_DiagonalPanEquivalence ==
    (/\ pan.pc # "none" /\ pan.last.op = "PanRelative"
     /\ PanSolvedFor(pan.prev)
     /\ 0 < Abs(pan.last.x) /\ Abs(pan.last.x) < pan.prev.position.width
     /\ 0 < Abs(pan.last.y) /\ Abs(pan.last.y) < pan.prev.position.height)
    => /\ pan.pc = "run"
       /\ pan.m.position.center = <<pan.prev.position.center[1] + pan.last.x,
                                    pan.prev.position.center[2] + pan.last.y>>
       /\ PanSameIValues(pan.m.state, pan.m.position)

\* a diagonal PanRelative by two columns and two rows on a window of three by
\* three (the four corner pixels are covered by both strips), whose result has
\* pixels of different i_value
C16_Witness ==
    /\ pan.pc = "run" /\ pan.last.op = "PanRelative"
    /\ PanSolvedFor(pan.prev)
    /\ pan.prev.position.width = 3 /\ pan.prev.position.height = 3
    /\ Abs(pan.last.x) = 2 /\ Abs(pan.last.y) = 2
    /\ \E a, b \in PanPixels(pan.m.position) :
            IValue("vec", pan.m.state, a[1], a[2]) # IValue("vec", pan.m.state, b[1], b[2])

\* C17: a fast pan by |dy| >= height or |dx| >= width either fails or leaves the
\* state as it was; it never ends with a modified state.
C17_OutOfRangeShiftRejected ==
    (\/ PanLastVertical /\ Abs(pan.last.y) >= pan.prev.position.height
     \/ PanLastHorizontal /\ Abs(pan.last.x) >= pan.prev.position.width)
    => (pan.pc = "panicked" \/ pan.m.state = pan.prev.state)

\* ------------------------------------------------------- the iteration scenario
\* the number of calls of next made after the first None
MaxNones == 3

VitOthersIdle == sj = None /\ NoPools /\ sv = None /\ pan = None /\ sa = None
    /\ mk = None /\ orch = None /\ jn = None /\ mw = None /\ au = None

\* viewbox.into_iter(): nothing yielded yet
VitInit ==
    /\ \E v \in Viewboxes :
         vit = [pc |-> "run", vb |-> v, it |-> ViewboxIntoIter(v),
                yielded |-> <<>>, nones |-> 0, late |-> FALSE]
    /\ VitOthersIdle

\* Iterator::next for ViewboxIter: incr, then Some(current) if current.1 <= to_y,
\* else None; late records a Some returned after a None
VitNext ==
    /\ vit.pc = "run"
    /\ vit.nones < MaxNones
    /\ LET current == <<vit.it.x, vit.it.y>>
       IN vit' = [vit EXCEPT
                    !.it = ViewboxIterIncr(vit.it),
                    !.yielded = IF current[2] <= vit.it.to_y
                                THEN Append(@, current) ELSE @,
                    !.nones = IF current[2] <= vit.it.to_y THEN @ ELSE @ + 1,
                    !.late = @ \/ (current[2] <= vit.it.to_y /\ vit.nones > 0)]
    /\ UNCHANGED <<sj, poolVars, sv, pan, sa, mk, orch, jn, mw, au>>

IterSpec == VitInit /\ [][VitNext]_vars

\* C18: the items a Viewbox of width w >= 1 and height h >= 1 has yielded are the
\* first of the w*h pixel coordinates in row-major order (x fastest) from
\* (center.x - w div 2, center.y - h div 2), each once; None is returned only
\* after all w*h were yielded, and every call after a None returns None.
C18_ViewboxIterRowMajor ==
    vit.pc = "run" =>
        LET w == vit.vb.width
            h == vit.vb.height
            x0 == vit.vb.center[1] - (w \div 2)
            y0 == vit.vb.center[2] - (h \div 2)
            n == Len(vit.yielded)
        IN /\ n <= w * h
           /\ \A k \in 1..n : vit.yielded[k] = <<x0 + ((k - 1) % w), y0 + ((k - 1) \div w)>>
           /\ vit.nones > 0 => n = w * h
           /\ ~vit.late

\* a window of two columns and three rows has yielded its six coordinates and
\* next was called twice more
C18_Witness ==
    /\ vit.pc = "run"
    /\ vit.vb.width = 2 /\ vit.vb.height = 3
    /\ Len(vit.yielded) = 6
    /\ vit.nones = 2

\* ------------------------------------------------------- state/shared.rs: SArray, SRefArray
\* the largest array, the most parts of a split, the number of set calls
MaxSaLen == 3
MaxSaParts == 2
MaxSaWrites == 2
\* a part of the array may be split again, its parts not
SaDepth == 2

\* SArray::cell / SRefArray::cell(n) on a part of an array of N cells: the index
\* into data, or the panic of the assertion or of the bounds check of data[n]
SaCell(part, n, N) ==
    LET m == n + part.start
    IN IF ~(m <= part.end) THEN Panic("out of bounds")
       ELSE IF m >= N THEN Panic("index out of bounds")
       ELSE Ok(m)

\* the values held (not moved into a split or dropped), named by their path from
\* the whole array: <<>>, its parts <<i>>, their parts <<i, j>>
SaHeld == {p \in DOMAIN sa.nodes : sa.nodes[p].st = "held"}

\* the parts whose parent is p
SaChildren(p) ==
    {q \in DOMAIN sa.nodes : Len(q) = Len(p) + 1 /\ SubSeq(q, 1, Len(p)) = p}

SaOthersIdle == sj = None /\ NoPools /\ sv = None /\ pan = None /\ vit = None
    /\ mk = None /\ orch = None /\ jn = None /\ mw = None /\ au = None

\* SArray::default(): N cells of value 0; own[k] is the last value written to
\* cell k through a part whose range holds k (0: none yet), stray tells whether
\* some write went to a cell outside the writing part's range
SaInit ==
    /\ \E N \in 1..MaxSaLen :
         sa = [pc |-> "run", len |-> N,
               data |-> [k \in 1..N |-> 0], own |-> [k \in 1..N |-> 0],
               nodes |-> (<<>> :> [start |-> 0, end |-> N, st |-> "held"]),
               stamp |-> 0, err |-> "", stray |-> FALSE,
               last |-> [op |-> "full", start |-> 0, end |-> N, idx |-> 0]]
    /\ SaOthersIdle

\* SArraySplit::split(self, n): self moves into the Arc its parts share
SaSplit(p, n) ==
    /\ sa.pc = "run"
    /\ p \in SaHeld /\ Len(p) < SaDepth
    /\ LET rs == RangeSplitterSplit(sa.nodes[p].start, sa.nodes[p].end, n)
           parts == {Append(p, i) : i \in 1..n}
       IN /\ rs.ok
          /\ sa' = [sa EXCEPT
                !.nodes = [q \in DOMAIN sa.nodes \cup parts |->
                            IF q = p THEN [sa.nodes[p] EXCEPT !.st = "split"]
                            ELSE IF q \in parts
                                 THEN [start |-> rs.val[q[Len(q)]][1],
                                       end |-> rs.val[q[Len(q)]][2], st |-> "held"]
                                 ELSE sa.nodes[q]],
                !.last = [op |-> "split", start |-> sa.nodes[p].start,
                          end |-> sa.nodes[p].end, idx |-> 0]]
    /\ UNCHANGED <<sj, poolVars, sv, pan, vit, mk, orch, jn, mw, au>>

\* set(n, value) by the thread holding part p; the value is a fresh stamp
SaSet(p, n) ==
    /\ sa.pc = "run"
    /\ p \in SaHeld
    /\ sa.stamp < MaxSaWrites
    /\ LET part == sa.nodes[p]
           c == SaCell(part, n, sa.len)
           v == sa.stamp + 1
       IN IF ~c.ok
          THEN sa' = [sa EXCEPT !.pc = "panicked", !.err = c.err]
          ELSE sa' = [sa EXCEPT
                        !.data[c.val + 1] = v,
                        !.own[c.val + 1] =
                            IF part.start <= c.val /\ c.val < part.end THEN v ELSE @,
                        !.stray = @ \/ ~(part.start <= c.val /\ c.val < part.end),
                        !.stamp = v,
                        !.last = [op |-> "set", start |-> part.start,
                                  end |-> part.end, idx |-> c.val]]
    /\ UNCHANGED <<sj, poolVars, sv, pan, vit, mk, orch, jn, mw, au>>

\* get(n) by the thread holding part p
SaGet(p, n) ==
    /\ sa.pc = "run"
    /\ p \in SaHeld
    /\ LET part == sa.nodes[p]
           c == SaCell(part, n, sa.len)
       IN IF ~c.ok
          THEN sa' = [sa EXCEPT !.pc = "panicked", !.err = c.err]
          ELSE sa' = [sa EXCEPT !.last = [op |-> "get", start |-> part.start,
                                          end |-> part.end, idx |-> c.val]]
    /\ UNCHANGED <<sj, poolVars, sv, pan, vit, mk, orch, jn, mw, au>>

\* SArraySplit::join(v), v holding the parts S: the parent is returned when every
\* part has it as parent and no other part still shares it
SaJoin(S) ==
    /\ sa.pc = "run"
    /\ S # {} /\ S \subseteq SaHeld
    /\ IF <<>> \in S
       THEN sa' = [sa EXCEPT !.pc = "panicked",
                             !.err = "called Option::unwrap() on a None value"]
       ELSE IF \E a, b \in S : SubSeq(a, 1, Len(a) - 1) # SubSeq(b, 1, Len(b) - 1)
       THEN sa' = [sa EXCEPT !.pc = "panicked",
                             !.err = "assertion failed: Arc::ptr_eq(parent, other_parent)"]
       ELSE LET first == CHOOSE a \in S : TRUE
                parent == SubSeq(first, 1, Len(first) - 1)
            IN IF S # SaChildren(parent)
               THEN sa' = [sa EXCEPT !.pc = "panicked", !.err = "more children?"]
               ELSE sa' = [sa EXCEPT
                             !.nodes = [q \in DOMAIN sa.nodes \ S |->
                                          IF q = parent
                                          THEN [sa.nodes[q] EXCEPT !.st = "held"]
                                          ELSE sa.nodes[q]],
                             !.last = [op |-> "join", start |-> sa.nodes[parent].start,
                                       end |-> sa.nodes[parent].end, idx |-> 0]]
    /\ UNCHANGED <<sj, poolVars, sv, pan, vit, mk, orch, jn, mw, au>>

SaNext ==
    \/ \E p \in DOMAIN sa.nodes : \E n \in 1..MaxSaParts : SaSplit(p, n)
    \/ \E p \in DOMAIN sa.nodes : \E n \in 0..MaxSaLen : SaSet(p, n)
    \/ \E p \in DOMAIN sa.nodes : \E n \in 0..MaxSaLen : SaGet(p, n)
    \/ \E S \in SUBSET DOMAIN sa.nodes : SaJoin(S)

SharedSpec == SaInit /\ [][SaNext]_vars

\* C19: every index read or written through a part lies in the part's own range
\* [start, end), so that sibling parts never give access to the same cell.
C19_PartAccessWithinOwnRange ==
    (sa.pc = "run" /\ sa.last.op \in {"get", "set"}) =>
        (sa.last.start <= sa.last.idx /\ sa.last.idx < sa.last.end)

\* C20: once the parts are joined back (inner split first) into the whole array,
\* every cell that was written through the part owning its index holds the last
\* value so written.
C20_JoinedHoldsOwnWrites ==
    (sa.pc = "run" /\ sa.nodes[<<>>].st = "held") =>
        \A k \in 1..sa.len : sa.own[k] # 0 => sa.data[k] = sa.own[k]

\* as long as every write went to a cell of the writing part's range, every cell
\* holds the last value written to it through its owner
SaInRangeWritesKept ==
    (sa.pc = "run" /\ ~sa.stray) => \A k \in 1..sa.len : sa.data[k] = sa.own[k]

\* ------------------------------------------------------- claims about the shape of states
\* the cells a state of each type holds are those of width * height pixels: the
\* scalar state one cell a pixel, the SIMD state one packed cell for LANES pixels,
\* the dense state height rows of width values in each of its three arrays
StateShapeOk(repr, s) ==
    CASE repr = "vec" -> Len(s.state) = s.width * s.height
      [] repr = "simd" -> LANES * Len(s.state) = s.width * s.height
      [] repr \in {"array", "legacy"} ->
            /\ Len(s.ca) = s.height /\ Len(s.za) = s.height /\ Len(s.ia) = s.height
            /\ \A y \in 1..Len(s.ca) :
                    Len(s.ca[y]) = s.width /\ Len(s.za[y]) = s.width /\ Len(s.ia[y]) = s.width

\* for the states of a type in R: the state created (and solved), every part of
\* its split (solved or not) and their join have the cells of width * height
\* pixels, and right after the split every part has the width and the iteration
\* count of the state split
StateShapeHolds(R) ==
    (sj.pc # "none" /\ sj.repr \in R) =>
        /\ StateShapeOk(sj.repr, sj.S)
        /\ \A k \in 1..Len(sj.parts) : StateShapeOk(sj.repr, sj.parts[k].part)
        /\ (sj.pc = "joined" /\ sj.out.ok) => StateShapeOk(sj.repr, sj.out.val)
        /\ (sj.pc = "split" /\ SjUntouched) =>
                \A k \in 1..Len(sj.parts) :
                    /\ sj.parts[k].part.width = sj.S.width
                    /\ sj.repr # "simd" => sj.parts[k].part.iteration = sj.S.iteration

\* C21: every escape state reached by creation, split, join and solve holds the
\* cells of width * height pixels, and every part produced by split keeps the
\* width and iteration count of the state it was split from.
C21_StateShape == StateShapeHolds(Reprs)

\* the same for the scalar and dense states only
SjShapeScalarDense == StateShapeHolds({"vec", "array", "legacy"})

\* ------------------------------------------------------- creation of grids and states
\* f64 NaN, and the value of a NaN or of +infinity cast to i16 (the cast saturates)
NAN == 2000000
I16Max == 32767

\* f64 division, as far as generate_complex_grid uses it
FDiv(a, b) ==
    IF b = 0 THEN (IF a = 0 THEN NAN ELSE IF a > 0 THEN INF ELSE -INF)
    ELSE a \div b

\* f64 multiplication of the index n >= 0 by the step m
FMul(n, m) ==
    IF m = NAN THEN NAN
    ELSE IF m \in {INF, -INF} THEN (IF n = 0 THEN NAN ELSE m)
    ELSE n * m

\* generate_complex_grid: the rows of the grid for the Viewport with lower corner
\* (xmin, ymin) and axis lengths xlen, ylen. The products and sums are complex, so
\* a NaN on one axis reaches both components of every cell.
GenerateComplexGrid(width, height, xmin, xlen, ymin, ylen) ==
    LET x_m == FDiv(xlen, width - 1)
        y_m == FDiv(ylen, height - 1)
        nan == \/ \E n \in 0..(width - 1) : FMul(n, x_m) = NAN
               \/ \E n \in 0..(height - 1) : FMul(n, y_m) = NAN
    IN Ok([y \in 1..height |-> [x \in 1..width |->
              IF nan THEN <<NAN, NAN>>
              ELSE <<FMul(x - 1, x_m) + xmin, FMul(y - 1, y_m) + ymin>>]])

\* impl From<Viewbox> for VecUvState
VecUvStateFrom(v) == SimdVecStateFrom(GenerateComplexCoordinates(v))

\* VecUvState::i_value(x, y), x and y 0-based: the lane is cast as it is
VecUvIValue(s, x, y) ==
    LET n == s.width * y + x
        ival == s.state[(n \div LANES) + 1].i[(n % LANES) + 1]
    IN IF ival >= I16Max THEN I16Max ELSE ival

MkKinds == {"coords", "grid", "simd", "vecuv"}

MkOthersIdle == sj = None /\ NoPools /\ sv = None /\ pan = None /\ vit = None
    /\ sa = None /\ orch = None /\ jn = None /\ mw = None /\ au = None

MkInit ==
    /\ \E v \in Viewboxes :
         mk = [pc |-> "start", vb |-> v, kind |-> "none", res |-> Ok(<<>>),
               solved |-> FALSE, read |-> <<>>]
    /\ MkOthersIdle

\* the grid or the state of kind k, created from the window
MkCreate(k) ==
    /\ mk.pc = "start"
    /\ \E r \in {CASE k = "coords" -> Ok(GenerateComplexCoordinates(mk.vb))
                   [] k = "grid" ->
                        GenerateComplexGrid(mk.vb.width, mk.vb.height,
                                            ViewboxIntoIter(mk.vb).from_x, mk.vb.width - 1,
                                            ViewboxIntoIter(mk.vb).y, mk.vb.height - 1)
                   [] k = "simd" -> SimdVecStateFrom(GenerateComplexCoordinates(mk.vb))
                   [] k = "vecuv" -> VecUvStateFrom(mk.vb)} :
         mk' = [mk EXCEPT !.pc = IF r.ok THEN "made" ELSE "failed", !.kind = k, !.res = r]
    /\ UNCHANGED <<sj, poolVars, sv, pan, vit, sa, orch, jn, mw, au>>

\* solver.solve(state) on the packed state that was created
MkSolve ==
    /\ mk.pc = "made"
    /\ mk.kind \in {"simd", "vecuv"}
    /\ ~mk.solved
    /\ mk' = [mk EXCEPT !.res = Ok(SimdVecSolverSolve(mk.res.val)), !.solved = TRUE,
                        !.read = <<>>]
    /\ UNCHANGED <<sj, poolVars, sv, pan, vit, sa, orch, jn, mw, au>>

\* state.i_value(x, y) on the packed state
MkIValue(x, y) ==
    /\ mk.pc = "made"
    /\ mk.kind \in {"simd", "vecuv"}
    /\ x < mk.vb.width /\ y < mk.vb.height
    /\ mk' = [mk EXCEPT !.read = [x |-> x, y |-> y,
                                  v |-> IF mk.kind = "simd"
                                        THEN IValue("simd", mk.res.val, x, y)
                                        ELSE VecUvIValue(mk.res.val, x, y)]]
    /\ UNCHANGED <<sj, poolVars, sv, pan, vit, sa, orch, jn, mw, au>>

MkNext ==
    \/ \E k \in MkKinds : MkCreate(k)
    \/ MkSolve
    \/ \E x \in 0..(MaxWidth - 1), y \in 0..(MaxHeight - 1) : MkIValue(x, y)

MakeSpec == MkInit /\ [][MkNext]_vars

\* the coordinates of the window in row-major order
MkCells == ViewboxIterCollect(ViewboxIntoIter(mk.vb))

\* C22: creating a SIMD-packed state from a grid whose cell count is not a multiple
\* of 4 fails with the assertion and yields no state; otherwise cell k of the grid
\* is in lane k mod 4 of packed cell k div 4.
C22_SimdCreation ==
    (mk.pc # "none" /\ mk.kind = "simd") =>
        IF Len(MkCells) % 4 # 0
        THEN mk.pc = "failed" /\ ~mk.res.ok /\ mk.res.err = "oops"
        ELSE /\ mk.pc = "made" /\ mk.res.ok
             /\ Len(mk.res.val.state) * 4 = Len(MkCells)
             /\ \A k \in 0..(Len(MkCells) - 1) :
                  mk.res.val.state[(k \div 4) + 1].c[(k % 4) + 1] = MkCells[k + 1]

C22_Witness ==
    /\ mk.pc = "failed" /\ mk.kind = "simd"
    /\ mk.vb.width = 2 /\ mk.vb.height = 3

\* the internal iteration value of the cell that was read
MkInternal ==
    LET n == mk.res.val.width * mk.read.y + mk.read.x
    IN mk.res.val.state[(n \div LANES) + 1].i[(n % LANES) + 1]

MkReadSentinel(K) ==
    (mk.pc = "made" /\ mk.kind \in K /\ mk.read # <<>>) =>
        /\ mk.read.v = -1 <=> MkInternal = INF
        /\ MkInternal # INF => mk.read.v = MkInternal

\* C23: for the SIMD-packed state, i_value(x, y) returns -1 exactly when the cell's
\* internal iteration value is +infinity, and the escape step otherwise.
C23_SimdUnsetSentinel == MkReadSentinel({"simd", "vecuv"})

\* the same for SimdVecState alone
SimdVecReadSentinel == MkReadSentinel({"simd"})

\* C24: generating the grid of a window with width < 2 or height < 2 fails; for
\* width >= 2 and height >= 2 it never fails.
C24_DegenerateGridFails ==
    (mk.pc # "none" /\ mk.kind \in {"coords", "grid"}) =>
        (mk.res.ok <=> (mk.vb.width >= 2 /\ mk.vb.height >= 2))

\* the half of it that holds: the generation never fails
GridGenerationNeverFails ==
    (mk.pc # "none" /\ mk.kind \in {"coords", "grid"}) => mk.res.ok

\* ------------------------------------------------------- SplitPart::join on any list
MaxJoinParts == 3

\* the one-cell scalar state that is the payload of the k-th element of the list
JnPayload(k) ==
    [width |-> 1, height |-> 1, iteration |-> 0,
     state |-> << [c |-> <<k, 0>>, z |-> <<k, 0>>, i |-> UNSET] >>]

JnOthersIdle == sj = None /\ NoPools /\ sv = None /\ pan = None /\ vit = None
    /\ sa = None /\ mk = None /\ orch = None /\ mw = None /\ au = None

\* any list of at most MaxJoinParts parts, tagged in any way
JnInit ==
    /\ \E len \in 0..MaxJoinParts : \E tags \in [1..len -> 0..MaxJoinParts] :
         jn = [pc |-> "start",
               splits |-> [k \in 1..len |-> SplitPartNew(JnPayload(k), tags[k])],
               out |-> Ok(<<>>)]
    /\ JnOthersIdle

\* SplitPart::join(splits)
JnJoin ==
    /\ jn.pc = "start"
    /\ jn' = [jn EXCEPT !.pc = "done", !.out = SplitPartJoin("vec", jn.splits)]
    /\ UNCHANGED <<sj, poolVars, sv, pan, vit, sa, mk, orch, mw, au>>

JnNext == JnJoin

JoinSpec == JnInit /\ [][JnNext]_vars

\* the positions in the list of the parts tagged i
JnTagged(i) == {k \in 1..Len(jn.splits) : jn.splits[k].n = i}

\* C25: SplitPart::join returns JoinError, without joining, when the list is empty,
\* when a tag is >= the number of parts, or when two parts carry the same tag; in
\* every other case each tag 0..n-1 occurs exactly once and the parts are joined in
\* ascending tag order, whatever their order in the list.
C25_TaggedJoin ==
    jn.pc = "done" =>
        LET n == Len(jn.splits)
        IN IF \/ n = 0
              \/ \E k \in 1..n : jn.splits[k].n >= n
              \/ \E j, k \in 1..n : j # k /\ jn.splits[j].n = jn.splits[k].n
           THEN jn.out = JoinError
           ELSE /\ \A i \in 0..(n - 1) : Cardinality(JnTagged(i)) = 1
                /\ jn.out.ok
                /\ jn.out.val.height = n
                /\ \A i \in 0..(n - 1) : \A k \in JnTagged(i) :
                     jn.out.val.state[i + 1] = jn.splits[k].part.state[1]

C25_Witness ==
    /\ jn.pc = "done" /\ jn.out.ok
    /\ Len(jn.splits) = 3
    /\ jn.splits[1].n = 2 /\ jn.splits[2].n = 0 /\ jn.splits[3].n = 1

\* ------------------------------------------------------- the pool between calls
\* pool p exists and no call is in progress on it
PoolIdle(p) == cfg.kind # "none" /\ alive[p] /\ caller[p].pc \in {"idle", "done"}

\* the results of the parts dispatched by the call of solver pool p that has returned
PoolExpected(p) ==
    CHOOSE e \in {[k \in 1..Len(d) |-> SplitPartNew(Solve(cfg.repr, d[k].part), d[k].n)] :
                    d \in {ToParts(cfg.repr, caller[p].input, NWorkers(p)).val}} : TRUE

\* C26: whenever a pool is Idle (before the first call and after each call
\* returns), its result channel is empty and every worker waits on its empty task
\* channel; the n results a call of a solver pool joined are the results of the n
\* parts that call dispatched.
C26_IdlePoolIsQuiescent ==
    \A p \in PoolIds :
        PoolIdle(p) =>
            /\ resq[p] = <<>>
            /\ \A w \in 1..NWorkers(p) :
                 wk[<<p, w>>].pc = "recv" /\ taskq[<<p, w>>] = <<>>
            /\ (caller[p].pc = "done" /\ LeafPool(p)) =>
                 \A e \in {PoolExpected(p)} :
                    /\ Len(caller[p].received) = Len(e)
                    /\ {caller[p].received[j] : j \in 1..Len(e)} = {e[k] : k \in 1..Len(e)}

\* the second of two calls on a pool of several workers has returned
C26_Witness ==
    /\ cfg.kind = "flat" /\ NWorkers(0) >= 2
    /\ alive[0] /\ caller[0].pc = "done" /\ calls = 2
    /\ caller[0].input.iteration = Iterations

\* ------------------------------------------------------- the pool under fair scheduling
\* Every thread is scheduled. A worker blocked in recv is woken when a part arrives
\* or the channel disconnects; the transform of a part terminates, so no worker
\* stays inside f.call for ever; the thread inside call finishes its sends and
\* takes a result that is waiting in the channel.
LiveSpec ==
    /\ Init /\ [][Next]_vars
    /\ \A pw \in WorkerIds : WF_vars(WorkerRecv(pw[1], pw[2]))
    /\ \A pw \in WorkerIds : []<>(wk[pw].pc # "call")
    /\ []<>(caller[0].pc # "dispatch")
    /\ []<>(~(caller[0].pc = "await" /\ resq[0] # <<>>))

\* a call is in progress on the pool the main thread calls
CallInProgress == caller[0].pc \in {"dispatch", "await"}

\* C27: on a pool of n >= 1 live workers whose transform always terminates, every
\* call eventually returns under fair scheduling of the threads.
C27_CallReturns ==
    (cfg.kind = "flat" /\ ~cfg.faulty /\ cfg.n >= 1 /\ CallInProgress)
        ~> (caller[0].pc = "done")

\* a call on such a pool is blocked in recv, with a part still being transformed
C27_Witness ==
    /\ cfg.kind = "flat" /\ ~cfg.faulty /\ cfg.n >= 2
    /\ caller[0].pc = "await" /\ resq[0] = <<>>
    /\ \E w \in 1..cfg.n : wk[<<0, w>>].pc = "call"

\* ------------------------------------------------------- the Pan handler
\* the last call was the handler of MAction::Pan(x, y)
PanLastHandled == pan.pc # "none" /\ pan.last.op = "Pan"

\* the centre is the previous centre moved by (x, y) of the last call
PanCentreMoved ==
    pan.m.position.center = <<pan.prev.position.center[1] + pan.last.x,
                              pan.prev.position.center[2] + pan.last.y>>

\* C28: when Pan(dx, dy) is handled on an existing Mandelbrot, the window centre
\* afterwards is the previous centre translated by exactly (dx, dy): the vertical
\* pan by dy runs exactly when dy # 0, the horizontal pan by dx exactly when dx # 0.
C28_PanHandlerTranslates ==
    PanLastHandled => (pan.pc = "run" /\ PanCentreMoved)

\* what holds: when both dx and dy are non-zero and smaller than the window's
\* sides, both pans run and the centre is translated by (dx, dy)
PanHandlerDiagonal ==
    (/\ PanLastHandled
     /\ pan.last.x # 0 /\ pan.last.y # 0
     /\ Abs(pan.last.x) < pan.prev.position.width
     /\ Abs(pan.last.y) < pan.prev.position.height)
    => (pan.pc = "run" /\ PanCentreMoved)

MaxActions == 3

\* Viewbox::initial(width, height) for width 3 and height >= 3: the aspect ratio is
\* at most 1.25, the scale is 3 / 3.0 = 1 and center.x = round(-0.5) = -1
ViewboxInitial(width, height) == Viewbox(-1, 0, width, height)

\* mandelbrot(w, h): Mandelbrot::initialize
MandelbrotInitialize(w, h) ==
    MandelbrotResolve([position |-> ViewboxInitial(w, h), state |-> <<>>],
                      ViewboxInitial(w, h))

\* what rx.recv_timeout returns: an action, or Err(Timeout). Reset and a first
\* Resize create windows of scale 1; x and y of PanRelative are qx, qy / PanDen
OrchActions ==
    {[op |-> "Reset", x |-> 3, y |-> 3]}
    \cup {[op |-> "Resize", x |-> w, y |-> w] : w \in 2..3}
    \cup {[op |-> o, x |-> x, y |-> y] : o \in {"Pan", "PanRelative"}, x \in 0..1, y \in 0..1}
    \cup {[op |-> "Zoom", x |-> 1, y |-> 1]}
    \cup {[op |-> "Timeout", x |-> 0, y |-> 0]}

\* the arm of the match for action a: [repaint, m, ok]; m is <<>> (None) or
\* <<mandelbrot>>, and ok is FALSE when a method panicked
OrchArm(m, a) ==
    CASE a.op = "Reset" ->
            CHOOSE o \in {[repaint |-> TRUE, ok |-> r.ok, err |-> r.err,
                           m |-> << [position |-> r.position, state |-> r.state] >>] :
                          r \in {MandelbrotInitialize(a.x, a.y)}} : TRUE
      [] a.op = "Resize" ->
            CHOOSE o \in {[repaint |-> TRUE, ok |-> r.ok, err |-> r.err,
                           m |-> << [position |-> r.position, state |-> r.state] >>] :
                          r \in {MandelbrotResolve(m0,
                                    [m0.position EXCEPT !.height = a.y, !.width = a.x]) :
                                 m0 \in {IF m # <<>> THEN m[1]
                                         ELSE [position |-> ViewboxInitial(a.x, a.y),
                                               state |-> MandelbrotInitialize(a.x, a.y).state]}}} :
                TRUE
      [] a.op = "Pan" /\ m # <<>> ->
            CHOOSE o \in {[repaint |-> TRUE, ok |-> r2.ok, err |-> r2.err,
                           m |-> << [position |-> r2.position, state |-> r2.state] >>] :
                          r2 \in {IF r1.ok /\ a.y # 0 THEN PanFastHorizontal(r1, a.x) ELSE r1 :
                                  r1 \in {IF a.x # 0 THEN PanFastVertical(m[1], a.y)
                                          ELSE MOk(m[1].position, m[1].state)}}} : TRUE
      [] a.op = "PanRelative" /\ m # <<>> ->
            CHOOSE o \in {[repaint |-> TRUE, ok |-> r2.ok, err |-> r2.err,
                           m |-> << [position |-> r2.position, state |-> r2.state] >>] :
                          r2 \in {IF r1.ok /\ a.x # 0 THEN PanFastHorizontalRelative(r1, a.x)
                                  ELSE r1 :
                                  r1 \in {IF a.y # 0 THEN PanFastVerticalRelative(m[1], a.y)
                                          ELSE MOk(m[1].position, m[1].state)}}} : TRUE
      [] a.op = "Zoom" /\ m # <<>> ->
            CHOOSE o \in {[repaint |-> TRUE, ok |-> r.ok, err |-> r.err,
                           m |-> << [position |-> r.position, state |-> r.state] >>] :
                          r \in {MandelbrotResolve(m[1], m[1].position)}} : TRUE
      [] OTHER -> [repaint |-> FALSE, ok |-> TRUE, err |-> "", m |-> m]

OrchOthersIdle == sj = None /\ NoPools /\ sv = None /\ pan = None /\ vit = None
    /\ sa = None /\ mk = None /\ jn = None /\ mw = None /\ au = None

\* the thread starts with m = None; nothing was received or sent
OrchInit ==
    /\ orch = [pc |-> "loop", m |-> <<>>, shutdown |-> FALSE, handled |-> 0, images |-> 0,
               last |-> [op |-> "start", x |-> 0, y |-> 0, had |-> FALSE, emitted |-> 0,
                         same |-> TRUE]]
    /\ OrchOthersIdle

\* one iteration of the loop: the shutdown flag is clear, recv_timeout returns a,
\* the arm runs, and if it asks for a repaint the image of m is sent
OrchHandle(a) ==
    /\ orch.pc = "loop" /\ ~orch.shutdown
    /\ orch.handled < MaxActions
    /\ (a.op = "Resize" /\ orch.m = <<>>) => a.x = 3
    /\ \E o \in {OrchArm(orch.m, a)} :
       \E sends \in {IF o.ok /\ o.repaint /\ o.m # <<>> THEN 1 ELSE 0} :
         orch' = [orch EXCEPT
                    !.pc = IF o.ok THEN "loop" ELSE "panicked",
                    !.m = IF o.ok THEN o.m ELSE <<>>,
                    !.handled = @ + 1,
                    !.images = @ + sends,
                    !.last = [op |-> a.op, x |-> a.x, y |-> a.y, had |-> orch.m # <<>>,
                              emitted |-> sends, same |-> o.ok /\ o.m = orch.m]]
    /\ UNCHANGED <<sj, poolVars, sv, pan, vit, sa, mk, jn, mw, au>>

\* impl Drop for MandelbrotWorker: the flag is set
OrchDrop ==
    /\ orch.pc # "none" /\ ~orch.shutdown
    /\ orch' = [orch EXCEPT !.shutdown = TRUE]
    /\ UNCHANGED <<sj, poolVars, sv, pan, vit, sa, mk, jn, mw, au>>

\* the thread finds the flag set at the top of the loop and returns
OrchReturn ==
    /\ orch.pc = "loop" /\ orch.shutdown
    /\ orch' = [orch EXCEPT !.pc = "returned", !.m = <<>>]
    /\ UNCHANGED <<sj, poolVars, sv, pan, vit, sa, mk, jn, mw, au>>

OrchNext ==
    \/ \E a \in OrchActions : OrchHandle(a)
    \/ OrchDrop
    \/ OrchReturn

OrchSpec == OrchInit /\ [][OrchNext]_vars

\* the last iteration received an action for which an image is due: Reset and
\* Resize always, Pan, PanRelative and Zoom when a Mandelbrot existed
OrchImageDue ==
    \/ orch.last.op \in {"Reset", "Resize"}
    \/ orch.last.op \in {"Pan", "PanRelative", "Zoom"} /\ orch.last.had

\* C30: the orchestrator thread emits an image exactly once for each action it
\* handles while a Mandelbrot exists: always for Reset and Resize, for Pan,
\* PanRelative and Zoom only if a Reset or Resize was handled before; Pan,
\* PanRelative and Zoom received earlier change nothing and emit nothing, and
\* timeouts emit nothing.
C30_OneImagePerHandledAction ==
    (orch.pc # "none" /\ orch.last.op # "start") =>
        /\ orch.last.emitted = (IF OrchImageDue THEN 1 ELSE 0)
        /\ ~OrchImageDue => orch.last.same

\* what holds: an iteration whose methods all return emits as the claim says, and
\* an iteration for which no image is due changes nothing and emits nothing
OrchImageUnlessPanic ==
    (orch.pc # "none" /\ orch.last.op # "start") =>
        /\ orch.pc # "panicked" => orch.last.emitted = (IF OrchImageDue THEN 1 ELSE 0)
        /\ ~OrchImageDue => (orch.last.same /\ orch.last.emitted = 0)
        /\ orch.pc = "panicked" => (OrchImageDue /\ orch.last.emitted = 0)

\* ------------------------------------------------------- lib.rs: BatchActionQueue
\* the number of calls of add, and of batches taken by the batching thread
MaxAdds == 3
MaxDrains == 2

\* the actions passed to add. Zoom(x) stands for the factor 2^x, PanRelative(x, y)
\* for (x / PanDen, y / PanDen): sums and products of these are exact in f64
MwActions ==
    {[op |-> "Resize", x |-> 2, y |-> 2], [op |-> "Resize", x |-> 0, y |-> 2],
     [op |-> "Pan", x |-> 1, y |-> 1], [op |-> "Pan", x |-> -1, y |-> -1],
     [op |-> "PanRelative", x |-> 1, y |-> 0], [op |-> "PanRelative", x |-> -1, y |-> 0],
     [op |-> "Zoom", x |-> 1, y |-> 0], [op |-> "Zoom", x |-> -1, y |-> 0],
     [op |-> "Reset", x |-> 3, y |-> 3]}

\* a message made by the batching thread (id 0); an action passed to add keeps
\* the number of its add call as id
MwMessage(op, x, y) == [op |-> op, x |-> x, y |-> y, id |-> 0]

\* the locals of spawn_q_sender before the `for message in messages` loop
BatchLocals == [resize |-> <<0, 0>>, pan |-> <<0, 0>>, pan_rel |-> <<0, 0>>, zoom |-> 0,
                sent |-> <<>>]

\* a plausible slip: the first Resize of the batch is kept, not the last
RECURSIVE BatchLoopFirstResize(_, _)
BatchLoopFirstResize(messages, l) ==
    IF messages = <<>> THEN l
    ELSE LET message == Head(messages)
             next ==
                CASE message.op = "Resize" ->
                        IF l.resize = <<0, 0>>
                        THEN [l EXCEPT !.resize = <<message.x, message.y>>] ELSE l
                  [] message.op = "Pan" ->
                        [l EXCEPT !.pan = <<@[1] + message.x, @[2] + message.y>>]
                  [] message.op = "PanRelative" ->
                        [l EXCEPT !.pan_rel = <<@[1] + message.x, @[2] + message.y>>]
                  [] message.op = "Zoom" -> [l EXCEPT !.zoom = @ + message.x]
                  [] message.op = "Reset" -> [l EXCEPT !.sent = Append(@, message)]
         IN BatchLoopFirstResize(Tail(messages), next)

\* the `for message in messages` loop: the locals after it; `sent` holds the
\* messages passed to tx.send inside the loop
RECURSIVE BatchLoop(_, _)
BatchLoop(messages, l) ==
    IF messages = <<>> THEN l
    ELSE LET message == Head(messages)
             next ==
                CASE message.op = "Resize" -> [l EXCEPT !.resize = <<message.x, message.y>>]
                  [] message.op = "Pan" ->
                        [l EXCEPT !.pan = <<@[1] + message.x, @[2] + message.y>>]
                  [] message.op = "PanRelative" ->
                        [l EXCEPT !.pan_rel = <<@[1] + message.x, @[2] + message.y>>]
                  [] message.op = "Zoom" -> [l EXCEPT !.zoom = @ + message.x]
                  [] message.op = "Reset" -> [l EXCEPT !.sent = Append(@, message)]
         IN BatchLoop(Tail(messages), next)

\* everything one iteration of the batching thread passes to tx.send, in order
BatchSends(messages) ==
    LET l == BatchLoop(messages, BatchLocals)
    IN l.sent
       \o (IF l.resize[1] # 0 /\ l.resize[2] # 0
           THEN << MwMessage("Resize", l.resize[1], l.resize[2]) >> ELSE <<>>)
       \o (IF l.pan[1] # 0 \/ l.pan[2] # 0
           THEN << MwMessage("Pan", l.pan[1], l.pan[2]) >> ELSE <<>>)
       \o (IF l.pan_rel[1] # 0 \/ l.pan_rel[2] # 0
           THEN << MwMessage("PanRelative", l.pan_rel[1], l.pan_rel[2]) >> ELSE <<>>)
       \o (IF l.zoom # 0 THEN << MwMessage("Zoom", l.zoom, 0) >> ELSE <<>>)

MwOthersIdle == sj = None /\ NoPools /\ sv = None /\ pan = None /\ vit = None
    /\ sa = None /\ mk = None /\ orch = None /\ jn = None /\ au = None

\* BatchActionQueue::new(tx): the queue is empty and the batching thread runs; the
\* receiver of the action channel is kept by the caller and nothing reads it
QueueInit ==
    /\ mw = [pc |-> "queue", q |-> <<>>, qs |-> "sleep", out |-> <<>>, ach |-> <<>>,
             os |-> "none", m |-> FALSE, ich |-> <<>>, rs |-> "none", slot |-> <<>>,
             shutdown |-> FALSE, owner |-> TRUE,
             adds |-> 0, batches |-> <<>>, fwd |-> <<>>, imgs |-> 0, taken |-> <<>>,
             rcv |-> <<>>, lastop |-> "new"]
    /\ MwOthersIdle

\* BatchActionQueue::add(action): the push under the write lock
MwAdd(a) ==
    /\ mw.pc # "none" /\ mw.owner
    /\ mw.adds < MaxAdds
    /\ mw' = [mw EXCEPT !.adds = @ + 1,
                        !.q = Append(@, [op |-> a.op, x |-> a.x, y |-> a.y,
                                         id |-> mw.adds + 1]),
                        !.lastop = "add"]
    /\ UNCHANGED <<sj, poolVars, sv, pan, vit, sa, mk, orch, jn, au>>

\* thread::sleep returns in the batching thread
QSenderWake ==
    /\ mw.pc # "none" /\ mw.qs = "sleep"
    /\ mw' = [mw EXCEPT !.qs = "take"]
    /\ UNCHANGED <<sj, poolVars, sv, pan, vit, sa, mk, orch, jn, au>>

\* the batches and the forwarded messages are logged for the queue on its own;
\* of its empty batches only the first MaxDrains are
BatchIsLogged == mw.pc = "queue" /\ (mw.q # <<>> \/ Len(mw.batches) < MaxDrains)

\* a plausible slip: the batch is a copy of the queue, which is not emptied
QSenderTakeCopies ==
    /\ mw.pc # "none" /\ mw.qs = "take"
    /\ mw' = [mw EXCEPT !.batches = IF BatchIsLogged THEN Append(@, mw.q) ELSE @,
                        !.out = BatchSends(mw.q),
                        !.qs = IF BatchSends(mw.q) = <<>> THEN "sleep" ELSE "send"]
    /\ UNCHANGED <<sj, poolVars, sv, pan, vit, sa, mk, orch, jn, au>>

\* the batching thread takes the queue under the write lock; the loop over the
\* batch only touches locals, its sends are taken one at a time
QSenderTake ==
    /\ mw.pc # "none" /\ mw.qs = "take"
    /\ mw' = [mw EXCEPT !.q = <<>>,
                        !.batches = IF BatchIsLogged THEN Append(@, mw.q) ELSE @,
                        !.out = BatchSends(mw.q),
                        !.qs = IF BatchSends(mw.q) = <<>> THEN "sleep" ELSE "send"]
    /\ UNCHANGED <<sj, poolVars, sv, pan, vit, sa, mk, orch, jn, au>>

\* the receiver of the action channel exists: kept by the caller of
\* BatchActionQueue::new, or owned by the orchestrator thread while it runs
ActionReceiverAlive == mw.pc = "queue" \/ mw.os = "loop"

\* tx.send(..).unwrap() of the batching thread
QSenderSend ==
    /\ mw.pc # "none" /\ mw.qs = "send"
    /\ IF ActionReceiverAlive
       THEN mw' = [mw EXCEPT !.ach = Append(@, Head(mw.out)),
                             !.fwd = IF mw.pc = "queue"
                                     THEN Append(@, [m |-> Head(mw.out),
                                                     batch |-> Len(mw.batches)])
                                     ELSE @,
                             !.out = Tail(@),
                             !.qs = IF Tail(mw.out) = <<>> THEN "sleep" ELSE "send"]
       ELSE mw' = [mw EXCEPT !.qs = "panicked", !.out = <<>>]
    /\ UNCHANGED <<sj, poolVars, sv, pan, vit, sa, mk, orch, jn, au>>

QueueNext ==
    \/ \E a \in MwActions : MwAdd(a)
    \/ QSenderWake
    \/ QSenderTake
    \/ QSenderSend

QueueSpec == QueueInit /\ [][QueueNext]_vars

\* the messages of one kind in a batch, and sums over them
OfKind(messages, op) == SelectSeq(messages, LAMBDA a : a.op = op)

RECURSIVE SumXY(_)
SumXY(messages) ==
    IF messages = <<>> THEN <<0, 0>>
    ELSE LET r == SumXY(Tail(messages))
         IN <<Head(messages).x + r[1], Head(messages).y + r[2]>>

\* the batches whose iteration of the batching thread is over
BatchDone(i) == i < Len(mw.batches) \/ mw.qs \in {"sleep", "take"}

\* what was forwarded for batch i, Resets left out
ForwardedFor(i) ==
    LET f == SelectSeq(mw.fwd, LAMBDA e : e.batch = i /\ e.m.op # "Reset")
    IN [k \in 1..Len(f) |-> [op |-> f[k].m.op, x |-> f[k].m.x, y |-> f[k].m.y]]

\* what the batch is to be merged into
MergedBatch(messages) ==
    LET rs == OfKind(messages, "Resize")
        ps == SumXY(OfKind(messages, "Pan"))
        rl == SumXY(OfKind(messages, "PanRelative"))
        zm == SumXY(OfKind(messages, "Zoom"))[1]
    IN (IF rs # <<>> /\ rs[Len(rs)].x # 0 /\ rs[Len(rs)].y # 0
        THEN << [op |-> "Resize", x |-> rs[Len(rs)].x, y |-> rs[Len(rs)].y] >> ELSE <<>>)
       \o (IF ps # <<0, 0>> THEN << [op |-> "Pan", x |-> ps[1], y |-> ps[2]] >> ELSE <<>>)
       \o (IF rl # <<0, 0>> THEN << [op |-> "PanRelative", x |-> rl[1], y |-> rl[2]] >> ELSE <<>>)
       \o (IF zm # 0 THEN << [op |-> "Zoom", x |-> zm, y |-> 0] >> ELSE <<>>)

\* C31: for each drained batch the batching thread forwards at most one Resize,
\* one Pan, one PanRelative and one Zoom, in that order: the last Resize of the
\* batch if both its dimensions are non-zero, the sum of its Pans if non-zero,
\* the sum of its PanRelatives if non-zero, the product of its Zoom factors if
\* not 1; an empty batch forwards nothing
C31_BatchIsMerged ==
    mw.pc = "queue" =>
        \A i \in 1..Len(mw.batches) :
            BatchDone(i) =>
                /\ ForwardedFor(i) = MergedBatch(mw.batches[i])
                /\ (mw.batches[i] = <<>> => \A e \in 1..Len(mw.fwd) : mw.fwd[e].batch # i)

\* a finished batch of two Resizes and a Pan, merged into one Resize and one Pan
C31_Witness ==
    /\ mw.pc = "queue"
    /\ \E i \in 1..Len(mw.batches) :
        /\ BatchDone(i)
        /\ Len(OfKind(mw.batches[i], "Resize")) = 2
        /\ Len(OfKind(mw.batches[i], "Pan")) = 1
        /\ Len(ForwardedFor(i)) = 2

\* the action at place k of a batch goes into the merged message of its kind: any
\* Pan, PanRelative or Zoom does, of the Resizes only the last
GoesInto(messages, k, op) ==
    /\ messages[k].op = op
    /\ op = "Resize" => \A j \in (k + 1)..Len(messages) : messages[j].op # "Resize"

\* C32: the relative order of a Reset and the other actions of the same batch is
\* preserved on forwarding: a Pan, PanRelative, Zoom or Resize that was enqueued
\* before a Reset is never forwarded after that Reset
C32_ResetKeepsItsPlace ==
    mw.pc = "queue" =>
        \A e1, e2 \in 1..Len(mw.fwd) :
            (/\ e1 < e2
             /\ mw.fwd[e1].batch = mw.fwd[e2].batch
             /\ mw.fwd[e1].m.op = "Reset"
             /\ mw.fwd[e2].m.op # "Reset")
            => LET messages == mw.batches[mw.fwd[e1].batch]
               IN ~ \E k, r \in 1..Len(messages) :
                        /\ k < r
                        /\ messages[r].id = mw.fwd[e1].m.id
                        /\ GoesInto(messages, k, mw.fwd[e2].m.op)

\* what holds: the Resets of a batch are forwarded in the order of their adds,
\* before every merged message of the batch
ResetsFirstInOrder ==
    mw.pc = "queue" =>
        \A e1, e2 \in 1..Len(mw.fwd) :
            (e1 < e2 /\ mw.fwd[e1].batch = mw.fwd[e2].batch /\ mw.fwd[e2].m.op = "Reset")
            => (mw.fwd[e1].m.op = "Reset" /\ mw.fwd[e1].m.id < mw.fwd[e2].m.id)

\* how often the action of the add call number id is in a sequence of actions
Occurrences(messages, id) == Len(SelectSeq(messages, LAMBDA a : a.id = id))

RECURSIVE OccurrencesInBatches(_, _)
OccurrencesInBatches(bs, id) ==
    IF bs = <<>> THEN 0
    ELSE Occurrences(Head(bs), id) + OccurrencesInBatches(Tail(bs), id)

\* C33: every action passed to add, at any time relative to the batching thread,
\* is included in exactly one drained batch: it is not lost (it is in the queue
\* until a batch takes it) and it is not processed in two batches (a Reset is
\* forwarded once)
C33_ExactlyOneBatch ==
    mw.pc = "queue" =>
        \A id \in 1..mw.adds :
            /\ Occurrences(mw.q, id) + OccurrencesInBatches(mw.batches, id) = 1
            /\ OccurrencesInBatches(mw.batches, id) \in {0, 1}
            /\ Len(SelectSeq(mw.fwd, LAMBDA e : e.m.id = id)) <= 1

\* add was called while the batching thread was sending its first batch, and
\* again while it was sending the second
C33_Witness ==
    /\ mw.pc = "queue"
    /\ mw.qs = "send" /\ mw.q # <<>>
    /\ Len(mw.batches) = 2 /\ mw.batches[1] # <<>> /\ mw.batches[2] # <<>>

\* ------------------------------------------------------- lib.rs: MandelbrotWorker
\* the actions sent to the worker: they create a window of scale 1 and pan it
WorkerActions ==
    {[op |-> "Reset", x |-> 3, y |-> 3],
     [op |-> "Pan", x |-> 1, y |-> 1], [op |-> "Pan", x |-> 1, y |-> 0]}

\* MandelbrotWorker::new(): both channels are empty, the image slot is None, the
\* flag is clear; the image receiver, the orchestrator and the batching thread run
WorkerInit ==
    /\ mw = [pc |-> "worker", q |-> <<>>, qs |-> "sleep", out |-> <<>>, ach |-> <<>>,
             os |-> "loop", m |-> <<>>, ich |-> <<>>, rs |-> "loop", slot |-> <<>>,
             shutdown |-> FALSE, owner |-> TRUE,
             adds |-> 0, batches |-> <<>>, fwd |-> <<>>, imgs |-> 0, taken |-> <<>>,
             rcv |-> <<>>, lastop |-> "new"]
    /\ MwOthersIdle

\* one iteration of the orchestrator thread that receives an action: the flag is
\* clear, the arm runs, and if it asks for a repaint the image is sent; the
\* thread returns if the image receiver is gone. Images are numbered as sent
OrchestratorHandle ==
    /\ mw.pc = "worker" /\ mw.os = "loop" /\ ~mw.shutdown
    /\ mw.ach # <<>>
    /\ \E a \in {[op |-> Head(mw.ach).op, x |-> Head(mw.ach).x, y |-> Head(mw.ach).y]} :
       \E o \in {OrchArm(mw.m, a)} :
       \E paints \in {o.ok /\ o.repaint /\ o.m # <<>>} :
         mw' = [mw EXCEPT
                  !.ach = Tail(@),
                  !.os = IF ~o.ok THEN "panicked"
                         ELSE IF paints /\ mw.rs # "loop" THEN "returned" ELSE "loop",
                  !.m = IF o.ok THEN o.m ELSE <<>>,
                  !.imgs = IF paints /\ mw.rs = "loop" THEN @ + 1 ELSE @,
                  !.ich = IF paints /\ mw.rs = "loop" THEN Append(@, mw.imgs + 1) ELSE @,
                  !.lastop = "handle"]
    /\ UNCHANGED <<sj, poolVars, sv, pan, vit, sa, mk, orch, jn, au>>

\* the orchestrator thread returns: the flag is set at the top of the loop, or
\* recv_timeout finds the channel empty and its sender gone
OrchestratorReturn ==
    /\ mw.pc = "worker" /\ mw.os = "loop"
    /\ mw.shutdown \/ (mw.ach = <<>> /\ mw.qs = "panicked")
    /\ mw' = [mw EXCEPT !.os = "returned", !.lastop = "return"]
    /\ UNCHANGED <<sj, poolVars, sv, pan, vit, sa, mk, orch, jn, au>>

\* a plausible slip: a received image is dropped while the slot is full
ReceiveImageKeepsOld ==
    /\ mw.pc = "worker" /\ mw.rs = "loop" /\ ~mw.shutdown
    /\ mw.ich # <<>>
    /\ mw' = [mw EXCEPT !.ich = Tail(@),
                        !.rcv = Append(@, Head(mw.ich)),
                        !.slot = IF @ = <<>> THEN << Head(mw.ich) >> ELSE @,
                        !.lastop = "receive"]
    /\ UNCHANGED <<sj, poolVars, sv, pan, vit, sa, mk, orch, jn, au>>

\* one iteration of the image receiver that receives an image: the flag is clear
\* and images.write().unwrap().replace(img)
ReceiveImage ==
    /\ mw.pc = "worker" /\ mw.rs = "loop" /\ ~mw.shutdown
    /\ mw.ich # <<>>
    /\ mw' = [mw EXCEPT !.ich = Tail(@),
                        !.rcv = Append(@, Head(mw.ich)),
                        !.slot = << Head(mw.ich) >>,
                        !.lastop = "receive"]
    /\ UNCHANGED <<sj, poolVars, sv, pan, vit, sa, mk, orch, jn, au>>

\* the image receiver returns: the flag is set, or the channel is empty and the
\* orchestrator thread, which owns its sender, has ended
ReceiverReturn ==
    /\ mw.pc = "worker" /\ mw.rs = "loop"
    /\ mw.shutdown \/ (mw.ich = <<>> /\ mw.os # "loop")
    /\ mw' = [mw EXCEPT !.rs = "returned", !.lastop = "return"]
    /\ UNCHANGED <<sj, poolVars, sv, pan, vit, sa, mk, orch, jn, au>>

\* MandelbrotWorker::images_count
ImagesCount == IF mw.slot # <<>> THEN 1 ELSE 0

\* MandelbrotWorker::next_image: the slot is taken; what it returns is logged with
\* the image received last
NextImage ==
    /\ mw.pc = "worker" /\ mw.owner
    /\ mw' = [mw EXCEPT !.slot = <<>>,
                        !.taken = IF mw.slot = <<>> THEN @
                                  ELSE Append(@, [img |-> mw.slot[1],
                                                  latest |-> mw.rcv[Len(mw.rcv)]]),
                        !.lastop = "next_image"]
    /\ UNCHANGED <<sj, poolVars, sv, pan, vit, sa, mk, orch, jn, au>>

\* impl Drop for MandelbrotWorker: the flag is set; the handle is gone, and with
\* it every later call of its methods
WorkerDrop ==
    /\ mw.pc = "worker" /\ mw.owner
    /\ mw' = [mw EXCEPT !.shutdown = TRUE, !.owner = FALSE, !.lastop = "drop"]
    /\ UNCHANGED <<sj, poolVars, sv, pan, vit, sa, mk, orch, jn, au>>

WorkerNext ==
    \/ \E a \in WorkerActions : MwAdd(a)
    \/ QSenderWake
    \/ QSenderTake
    \/ QSenderSend
    \/ OrchestratorHandle
    \/ OrchestratorReturn
    \/ ReceiveImage
    \/ ReceiverReturn
    \/ NextImage
    \/ WorkerDrop

WorkerSpec == WorkerInit /\ [][WorkerNext]_vars

\* the images returned by next_image so far
TakenImages == {mw.taken[i].img : i \in 1..Len(mw.taken)}

\* C34: the image slot of a MandelbrotWorker holds at most one image: a newly
\* received image replaces an untaken one, next_image returns the most recently
\* received image not yet taken and empties the slot, no image is returned by two
\* next_image calls, and images_count is 1 exactly when the slot is full
C34_OneImageSlot ==
    mw.pc = "worker" =>
        /\ Len(mw.slot) <= 1
        /\ mw.slot # <<>> => (mw.slot[1] = mw.rcv[Len(mw.rcv)] /\ mw.slot[1] \notin TakenImages)
        /\ (mw.slot = <<>> /\ mw.rcv # <<>>) => mw.rcv[Len(mw.rcv)] \in TakenImages
        /\ \A i \in 1..Len(mw.taken) : mw.taken[i].img = mw.taken[i].latest
        /\ \A i, j \in 1..Len(mw.taken) : i < j => mw.taken[i].img < mw.taken[j].img
        /\ mw.lastop = "next_image" => mw.slot = <<>>
        /\ (ImagesCount = 1) = (mw.slot # <<>>)
        /\ ImagesCount \in {0, 1}

\* two images were received, the first was never taken, and next_image has
\* returned the second
C34_Witness ==
    /\ mw.pc = "worker"
    /\ Len(mw.rcv) >= 2
    /\ TakenImages = {mw.rcv[2]}
    /\ mw.lastop = "next_image"

\* the scheduler runs every thread that can take a step: the batching thread, the
\* orchestrator thread and the image receiver; the calls of the owner are not
\* forced. The orchestrator's fairness is stated on the guard of its iteration
WorkerFairSpec ==
    /\ WorkerInit /\ [][WorkerNext]_vars
    /\ WF_vars(QSenderWake) /\ WF_vars(QSenderTake) /\ WF_vars(QSenderSend)
    /\ WF_vars(OrchestratorReturn)
    /\ WF_vars(ReceiveImage) /\ WF_vars(ReceiverReturn)
    /\ []<>(~(mw.os = "loop" /\ ~mw.shutdown /\ mw.ach # <<>>))

\* a thread has ended when it returned or panicked; the batching thread has no
\* return and ends only by the panic of a send
OrchestratorEnded == mw.os \in {"returned", "panicked"}
ReceiverEnded == mw.rs = "returned"
QSenderEnded == mw.qs = "panicked"

\* C35: after a MandelbrotWorker is dropped, every thread it started (the
\* orchestrator thread, the image receiver and the batching thread) eventually
\* terminates, whether or not any action is enqueued again
C35_DropEndsAllThreads ==
    (mw.pc = "worker" /\ mw.shutdown) ~> (OrchestratorEnded /\ ReceiverEnded /\ QSenderEnded)

\* what holds: the two threads that read the flag end after the drop
DropEndsFlagReaders ==
    (mw.pc = "worker" /\ mw.shutdown) ~> (OrchestratorEnded /\ ReceiverEnded)

\* what holds: while nothing is queued and nothing is left to send, the batching
\* thread of a dropped worker has not ended
IdleQSenderOutlivesDrop ==
    (mw.pc = "worker" /\ mw.shutdown /\ mw.q = <<>> /\ mw.qs \in {"sleep", "take"})
        => ~QSenderEnded

\* ------------------------------------------- updater.rs: AsyncUpdateWrapper
\* the number of requests sent to the worker thread
MaxUpdates == 4

AuOthersIdle == sj = None /\ NoPools /\ sv = None /\ pan = None /\ vit = None
    /\ sa = None /\ mk = None /\ orch = None /\ jn = None /\ mw = None

\* AsyncUpdateWrapper::new: both channels are empty, the flag is clear and the
\* worker thread is at the top of its loop. g is the place of the owning thread,
\* w the place of the worker; requests are numbered as sent
AuNew(owner) ==
    [pc |-> owner, g |-> "idle", w |-> "check", ab |-> <<>>, b |-> <<>>, cur |-> 0,
     shutdown |-> FALSE, waiting_on_updates |-> 0, sent |-> 0, received |-> 0]

\* the worker thread reads the flag at the top of its loop
UpdaterCheck ==
    /\ au.pc # "none" /\ au.w = "check"
    /\ au' = [au EXCEPT !.w = IF au.shutdown THEN "returned" ELSE "recv"]
    /\ UNCHANGED <<sj, poolVars, sv, pan, vit, sa, mk, orch, jn, mw>>

\* ab_rx.recv() returns: a request, or Err once the channel is empty and the
\* wrapper, which owns the sender, is gone; until then the thread is blocked
UpdaterRecv ==
    /\ au.pc # "none" /\ au.w = "recv"
    /\ au.ab # <<>> \/ au.g = "terminated"
    /\ au' = IF au.ab # <<>>
             THEN [au EXCEPT !.ab = Tail(@), !.cur = Head(au.ab), !.w = "update"]
             ELSE [au EXCEPT !.w = "returned"]
    /\ UNCHANGED <<sj, poolVars, sv, pan, vit, sa, mk, orch, jn, mw>>

\* updater.update(..) returns and its result is sent, or it panics; the send
\* fails and the thread returns if the wrapper, which owns the receiver, is gone
UpdaterUpdate(r) ==
    /\ au.pc # "none" /\ au.w = "update"
    /\ au' = IF r = "panic" THEN [au EXCEPT !.w = "panicked", !.cur = 0]
             ELSE IF au.g = "terminated" THEN [au EXCEPT !.w = "returned", !.cur = 0]
             ELSE [au EXCEPT !.b = Append(@, au.cur), !.cur = 0, !.w = "check"]
    /\ UNCHANGED <<sj, poolVars, sv, pan, vit, sa, mk, orch, jn, mw>>

UpdaterThreadEnded == au.w \in {"returned", "panicked"}

\* --------------------------------------- updater.rs: AsyncUpdateController
ControllerInit == au = AuNew("controller") /\ AuOthersIdle

\* update() with changed data: self.updater.send(..), which panics if the worker
\* thread has ended; the callback has not yet counted the request
ControllerUpdate ==
    /\ au.pc = "controller" /\ au.g = "idle"
    /\ au.sent < MaxUpdates
    /\ au' = IF UpdaterThreadEnded THEN [au EXCEPT !.g = "panicked"]
             ELSE [au EXCEPT !.ab = Append(@, au.sent + 1), !.sent = @ + 1, !.g = "update"]
    /\ UNCHANGED <<sj, poolVars, sv, pan, vit, sa, mk, orch, jn, mw>>

\* update() goes on: self.waiting_on_updates += 1, and the callback returns
ControllerUpdateEnd ==
    /\ au.pc = "controller" /\ au.g = "update"
    /\ au' = [au EXCEPT !.waiting_on_updates = @ + 1, !.g = "idle"]
    /\ UNCHANGED <<sj, poolVars, sv, pan, vit, sa, mk, orch, jn, mw>>

\* a plausible slip: the counter is decremented whenever it is positive
ControllerEventCountsDown ==
    /\ au.pc = "controller" /\ au.g = "idle"
    /\ au' = IF au.b # <<>>
             THEN [au EXCEPT !.b = Tail(@), !.received = @ + 1,
                             !.waiting_on_updates = @ - 1]
             ELSE IF UpdaterThreadEnded THEN [au EXCEPT !.g = "panicked"]
             ELSE [au EXCEPT !.waiting_on_updates = IF @ > 0 THEN @ - 1 ELSE @]
    /\ UNCHANGED <<sj, poolVars, sv, pan, vit, sa, mk, orch, jn, mw>>

\* event(): maybe_receive returns Some and the counter is decremented, or None
\* and nothing changes, or it panics on a disconnected channel. The counter is
\* kept as an integer, so that a decrement at 0 shows as -1
ControllerEvent ==
    /\ au.pc = "controller" /\ au.g = "idle"
    /\ au' = IF au.b # <<>>
             THEN [au EXCEPT !.b = Tail(@), !.received = @ + 1,
                             !.waiting_on_updates = @ - 1]
             ELSE IF UpdaterThreadEnded THEN [au EXCEPT !.g = "panicked"]
             ELSE au
    /\ UNCHANGED <<sj, poolVars, sv, pan, vit, sa, mk, orch, jn, mw>>

ControllerNext ==
    \/ ControllerUpdate
    \/ ControllerUpdateEnd
    \/ ControllerEvent
    \/ UpdaterCheck
    \/ UpdaterRecv
    \/ \E r \in {"ok", "panic"} : UpdaterUpdate(r)

ControllerSpec == ControllerInit /\ [][ControllerNext]_vars

\* C36: in AsyncUpdateController, waiting_on_updates always equals the number of
\* update requests sent to the worker minus the number of results received from
\* it, and is never decremented below zero, for every interleaving of the
\* update() and event() callbacks with the worker thread. Inside update(), between
\* the send and the increment, the counter is one behind
C36_WaitingIsSentMinusReceived ==
    au.pc = "controller" =>
        /\ au.waiting_on_updates >= 0
        /\ au.received <= au.sent
        /\ au.g \in {"idle", "panicked"} => au.waiting_on_updates = au.sent - au.received
        /\ au.g = "update" => au.waiting_on_updates = au.sent - au.received - 1

\* a result was received between two callbacks while another request was still
\* with the worker thread
C36_Witness ==
    /\ au.pc = "controller" /\ au.g = "idle"
    /\ au.received >= 1 /\ au.waiting_on_updates >= 1
    /\ au.w = "update"

\* ------------------------------- updater.rs: AsyncUpdateWrapper used directly
WrapperInit == au = AuNew("wrapper") /\ AuOthersIdle

\* AsyncUpdateWrapper::send: tx.send(..).unwrap()
WrapperSend ==
    /\ au.pc = "wrapper" /\ au.g = "idle"
    /\ au.sent < MaxUpdates
    /\ au' = IF UpdaterThreadEnded THEN [au EXCEPT !.g = "panicked"]
             ELSE [au EXCEPT !.ab = Append(@, au.sent + 1), !.sent = @ + 1]
    /\ UNCHANGED <<sj, poolVars, sv, pan, vit, sa, mk, orch, jn, mw>>

\* AsyncUpdateWrapper::maybe_receive: Some(result), None on an empty channel, a
\* panic on a disconnected one
WrapperMaybeReceive ==
    /\ au.pc = "wrapper" /\ au.g = "idle"
    /\ au' = IF au.b # <<>> THEN [au EXCEPT !.b = Tail(@), !.received = @ + 1]
             ELSE IF UpdaterThreadEnded THEN [au EXCEPT !.g = "panicked"]
             ELSE au
    /\ UNCHANGED <<sj, poolVars, sv, pan, vit, sa, mk, orch, jn, mw>>

\* AsyncUpdateWrapper::terminate, first statement: the flag is stored. The
\* wrapper's sender and receiver live until terminate returns
Terminate ==
    /\ au.pc = "wrapper" /\ au.g = "idle"
    /\ au' = [au EXCEPT !.shutdown = TRUE, !.g = "join"]
    /\ UNCHANGED <<sj, poolVars, sv, pan, vit, sa, mk, orch, jn, mw>>

\* self.h.join().expect(..) returns once the worker thread has returned, and
\* panics if the thread panicked
TerminateJoin ==
    /\ au.pc = "wrapper" /\ au.g = "join"
    /\ UpdaterThreadEnded
    /\ au' = [au EXCEPT !.g = IF au.w = "returned" THEN "terminated" ELSE "panicked"]
    /\ UNCHANGED <<sj, poolVars, sv, pan, vit, sa, mk, orch, jn, mw>>

WrapperNext ==
    \/ WrapperSend
    \/ WrapperMaybeReceive
    \/ Terminate
    \/ TerminateJoin
    \/ UpdaterCheck
    \/ UpdaterRecv
    \/ \E r \in {"ok", "panic"} : UpdaterUpdate(r)

WrapperSpec == WrapperInit /\ [][WrapperNext]_vars

\* the scheduler runs the worker thread whenever it can take a step, and the
\* thread in terminate once join can return
WrapperFairSpec ==
    /\ WrapperInit /\ [][WrapperNext]_vars
    /\ WF_vars(UpdaterCheck) /\ WF_vars(UpdaterRecv) /\ WF_vars(TerminateJoin)
    /\ WF_vars(\E r \in {"ok", "panic"} : UpdaterUpdate(r))

\* C37: AsyncUpdateWrapper::terminate eventually returns with the worker thread
\* exited, in every state of the worker, including when the worker is idle
\* waiting for its next request
C37_TerminateReturns ==
    (au.pc = "wrapper" /\ au.g = "join") ~> (au.g = "terminated" /\ au.w = "returned")

\* the worker thread is blocked in recv on an empty channel whose sender lives
BlockedInRecv == au.w = "recv" /\ au.ab = <<>> /\ au.g # "terminated"

\* what holds: terminate returns, or panics because the thread panicked, unless
\* the worker thread is blocked in recv; and a thread blocked in recv while
\* terminate joins stays blocked
TerminateReturnsUnlessBlocked ==
    (au.pc = "wrapper" /\ au.g = "join")
        ~> (au.g \in {"terminated", "panicked"} \/ [](au.g = "join" /\ BlockedInRecv))
=============================================================================
